---- MODULE Spec2Model ----
(***************************************************************************)
(* The auto-tune engine of src/src/autotune.c: the note table filled by    *)
(* autotune_init, the nearest-note lookup find_nearest_note and the        *)
(* stateful corrector process_autotune / reset_autotune.                   *)
(*                                                                         *)
(* Numbers.  The program computes in IEEE-754 single precision.  A float   *)
(* is modelled by the integer x that stands for x * 2^-19 Hz, so every     *)
(* float of magnitude in [16, 4096) Hz and every coarser float below it is *)
(* represented exactly; RoundF rounds an exact result to the 24-bit        *)
(* significand (round to nearest, ties to even), as each float operation   *)
(* of the source does.  All exact intermediate results stay below 2^31.    *)
(***************************************************************************)
EXTENDS Integers, Sequences, FiniteSets

\* ------------------------------------------------------------------------
\* Single-precision arithmetic on the 2^-19 Hz grid
\* ------------------------------------------------------------------------

\* Grid units per Hz.
Hz == 2^19

\* 1.0f and 0.5f (strength / glide_rate values) on the same grid.
One == Hz
Half == Hz \div 2

Abs(x) == IF x < 0 THEN -x ELSE x

\* Spacing of the floats around a magnitude a >= 0 (a 24-bit significand).
Ulp(a) ==
    IF a < 2^24 THEN 1
    ELSE IF a < 2^25 THEN 2
    ELSE IF a < 2^26 THEN 4
    ELSE IF a < 2^27 THEN 8
    ELSE IF a < 2^28 THEN 16
    ELSE IF a < 2^29 THEN 32
    ELSE IF a < 2^30 THEN 64
    ELSE 128

\* a >= 0 rounded to the nearest multiple of q, ties to the even multiple.
RoundTo(a, q) ==
    LET n == a \div q
        rem == a - n * q
    IN  IF 2 * rem < q THEN n * q
        ELSE IF 2 * rem > q THEN (n + 1) * q
        ELSE IF n % 2 = 0 THEN n * q
        ELSE (n + 1) * q

\* The float nearest to the exact value x.
RoundF(x) == IF x < 0 THEN -RoundTo(-x, Ulp(-x)) ELSE RoundTo(x, Ulp(x))

\* x is itself a float.
IsFloat(x) == RoundF(x) = x

\* a * g in single precision for g in {0.0f, 0.5f, 1.0f}: scaling by a power
\* of two is exact.  (Every a that is halved is a difference of two floats of
\* magnitude >= 64 Hz, hence a multiple of 4 grid units.)
MulF(a, g) ==
    IF g = 0 THEN 0
    ELSE IF g = One THEN a
    ELSE a \div (One \div g)

\* a * b as three base-2^15 digits, most significant first (0 <= a, b < 2^30).
Product(a, b) ==
    LET B == 2^15
        low == (a % B) * (b % B)
        mid == (a \div B) * (b % B) + (a % B) * (b \div B) + low \div B
        high == (a \div B) * (b \div B) + mid \div B
    IN  <<high, mid % B, low % B>>

\* Number of bits of n >= 0.
RECURSIVE BitLen(_)
BitLen(n) == IF n = 0 THEN 0 ELSE 1 + BitLen(n \div 2)

\* AUTOTUNE_GLIDE 0.3f of sound_profiles.c is the float 5033165 * 2^-24, which
\* is not on the grid: as a glide_rate it is denoted by the grid integer
\* below 0.3, and products with it are computed from its significand.
AUTOTUNE_GLIDE == (3 * Hz) \div 10

GlideSignificand == 5033165

\* Number of bits of the three-digit number p of Product.
LimbLen(p) ==
    IF p[1] > 0 THEN 30 + BitLen(p[1])
    ELSE IF p[2] > 0 THEN 15 + BitLen(p[2])
    ELSE BitLen(p[3])

\* The number of low bits a 24-bit significand drops from a number of len
\* bits.
DroppedBits(len) == IF len > 24 THEN len - 24 ELSE 0

\* The three-digit number p without its d low bits, and those d bits
\* (0 <= d <= 30).
KeptBits(p, d) ==
    IF d <= 15
    THEN p[1] * 2^(30 - d) + p[2] * 2^(15 - d) + p[3] \div 2^d
    ELSE p[1] * 2^(30 - d) + p[2] \div 2^(d - 15)

LowBits(p, d) ==
    IF d <= 15 THEN p[3] % 2^d
    ELSE (p[2] % 2^(d - 15)) * 2^15 + p[3]

\* Round to nearest, ties to even: kept with the d dropped bits rem.
RoundEven(kept, rem, d) ==
    IF d > 0 /\ (rem > 2^(d - 1) \/ (rem = 2^(d - 1) /\ kept % 2 = 1))
    THEN kept + 1
    ELSE kept

RoundDigits(p, d) == <<d, RoundEven(KeptBits(p, d), LowBits(p, d), d)>>

RoundProduct(p) == RoundDigits(p, DroppedBits(LimbLen(p)))

\* a * b rounded to a float, 0 <= a, b < 2^30, as <<d, R>>: the float is
\* R * 2^d, d the number of low bits the 24-bit significand drops.
FloatProduct(a, b) == RoundProduct(Product(a, b))

\* |a| * 0.3f rounded to a float, as <<d, R>>: the float is R * 2^(d - 24)
\* grid units.
ProductWithGlide(a) == FloatProduct(Abs(a), GlideSignificand)

\* The float R * 2^(d - 24) grid units with the sign of a, as <<whole,
\* sticky>>: the float is whole + fraction grid units with 0 <= fraction <
\* 1, and sticky tells whether the fraction is nonzero.
SignedParts(a, whole, sticky) ==
    IF a >= 0 THEN <<whole, sticky>>
    ELSE IF sticky THEN <<-whole - 1, TRUE>>
    ELSE <<-whole, FALSE>>

GridParts(a, d, R) ==
    IF d >= 24 THEN SignedParts(a, R * 2^(d - 24), FALSE)
    ELSE SignedParts(a, R \div 2^(24 - d), R % 2^(24 - d) # 0)

GlideParts(a, dR) == GridParts(a, dR[1], dR[2])

\* a * g in single precision as <<whole, sticky>>.
MulParts(a, g) ==
    IF g # AUTOTUNE_GLIDE THEN <<MulF(a, g), FALSE>>
    ELSE GlideParts(a, ProductWithGlide(a))

\* The float nearest to x + fraction, x >= 2^24 an integer and 0 <= fraction
\* < 1 (nonzero iff sticky).
RoundSticky(x, sticky) ==
    LET q == Ulp(x)
        n == x \div q
        rem == x - n * q
    IN  IF 2 * rem < q THEN n * q
        ELSE IF 2 * rem > q \/ sticky THEN (n + 1) * q
        ELSE IF n % 2 = 0 THEN n * q
        ELSE (n + 1) * q

\* ------------------------------------------------------------------------
\* Constants of include/autotune.h
\* ------------------------------------------------------------------------

NUM_NOTES == 60

\* 65.41f: the decimal literal rounded to the nearest float.
FIRST_NOTE_FREQ == RoundF(65 * Hz + (41 * Hz) \div 100)

REFERENCE_A4 == 440 * Hz

\* 99999.0f, the scan's initial closest_distance: larger than every distance
\* between two values of the grid's range.
INITIAL_DISTANCE == 4095 * Hz

\* ------------------------------------------------------------------------
\* Bounds of the model
\* ------------------------------------------------------------------------

\* process_autotune calls in one run.
MaxCalls == 3

\* ------------------------------------------------------------------------
\* State
\* ------------------------------------------------------------------------

VARIABLES
    note_table,       \* float note_table[NUM_NOTES], indexed 0..NUM_NOTES-1
    current_freq,     \* autotune_state.current_freq
    target_freq,      \* autotune_state.target_freq
    last_input_freq,  \* autotune_state.last_input_freq
    op,               \* the function called last
    input_freq,       \* its input_freq argument
    strength,         \* its strength argument
    glide_rate,       \* its glide_rate argument
    output_freq,      \* the value it returned
    calls             \* process_autotune calls so far

\* The oscillator of src/src/waveform.c and its wavetables.
VARIABLES
    wavetable,        \* sine_table, square_table, sawtooth_table, triangle_table
    phase,            \* osc->phase, a uint32_t as <<high, low>> 16-bit halves
    phase_increment,  \* osc->phase_increment
    waveform_type,    \* osc->waveform_type
    frequency,        \* the frequency argument of oscillator_set_frequency
    sample,           \* the value oscillator_generate_sample returned
    samples,          \* samples generated since oscillator_init
    start_phase,      \* osc->phase when the frequency was last set
    start_samples     \* samples when the frequency was last set

\* The sample pipeline of src/src/sound_profiles.c and the partner's sink.
VARIABLES
    audio_buffer,     \* int16_t audio_buffer[AUDIO_BUFFER_SIZE]
    buffer_index,     \* uint16_t buffer_index, the loop variable of main
    adc_value,        \* the reading adc_read() returned last
    debug_counter,    \* static int debug_counter of process_audio_sample
    current_profile,  \* uint8_t current_profile
    handoffs,         \* calls of send_buffer_to_partner so far
    sink_handoff,     \* the handoff the sink is reading (0: none yet)
    sink_index        \* slots of that handoff the sink has read

\* The PWM wavetable path of src/src/audio_output.c.
VARIABLES
    step0,            \* int step0, the offset added per sample on channel 0
    offset0,          \* int offset0, the table position of channel 0 << 16
    step1,            \* int step1
    offset1,          \* int offset1
    chan,             \* the chan argument of the last set_freq
    pwm_freq,         \* the f argument of the last set_freq
    pwm_samples       \* calls of create_sine_samp so far

autotune_vars == <<note_table, current_freq, target_freq, last_input_freq,
                   input_freq, strength, glide_rate, output_freq, calls>>

osc_vars == <<wavetable, phase, phase_increment, waveform_type, frequency,
              sample, samples, start_phase, start_samples>>

producer_vars == <<audio_buffer, buffer_index, adc_value, debug_counter,
                   current_profile,
                   handoffs>>

sink_vars == <<sink_handoff, sink_index>>

pipe_vars == <<producer_vars, sink_vars>>

pwm_vars == <<step0, offset0, step1, offset1, chan, pwm_freq, pwm_samples>>

vars == <<note_table, current_freq, target_freq, last_input_freq,
          op, input_freq, strength, glide_rate, output_freq, calls,
          wavetable, phase, phase_increment, waveform_type, frequency,
          sample, samples, start_phase, start_samples,
          audio_buffer, buffer_index, adc_value, debug_counter,
          current_profile, handoffs,
          sink_handoff, sink_index,
          step0, offset0, step1, offset1, chan, pwm_freq, pwm_samples>>

\* ------------------------------------------------------------------------
\* waveform.h / waveform.c: the wavetables and the oscillator
\* ------------------------------------------------------------------------

WAVETABLE_SIZE == 256

SAMPLE_RATE == 44100

WAVEFORM_SINE == 0
WAVEFORM_SQUARE == 1
WAVEFORM_SAWTOOTH == 2
WAVEFORM_TRIANGLE == 3

\* A sample is the float m * 2^-e, written <<m, e>> with m odd (or <<0, 0>>).
RECURSIVE Canon(_, _)
Canon(m, e) ==
    IF m = 0 THEN <<0, 0>>
    ELSE IF e > 0 /\ m % 2 = 0 THEN Canon(m \div 2, e - 1)
    ELSE <<m, e>>

\* sinf((float)(position * 2.0f * M_PI)) for position = i / 256, i = 0 .. 255.
SineValues ==
    <<
        <<0, 0>>, <<823467, 25>>, <<823219, 24>>, <<9873669, 27>>,
        <<6577819, 26>>, <<8214841, 26>>, <<9846915, 26>>, <<5736529, 25>>,
        <<6546145, 25>>, <<14703635, 26>>, <<4076531, 24>>, <<8949395, 25>>,
        <<4870169, 24>>, <<10525413, 25>>, <<11304147, 25>>, <<6038037, 24>>,
        <<6420363, 24>>, <<6798821, 24>>, <<112081, 18>>, <<15086453, 25>>,
        <<15817449, 25>>, <<8269459, 24>>, <<2156303, 22>>, <<4487885, 23>>,
        <<4660461, 23>>, <<9660459, 24>>, <<156159, 18>>, <<10321873, 24>>,
        <<10643353, 24>>, <<5479211, 23>>, <<5633445, 23>>, <<11568571, 24>>,
        <<11863283, 24>>, <<12150849, 24>>, <<12431097, 24>>, <<793991, 20>>,
        <<12968963, 24>>, <<6613129, 23>>, <<6737793, 23>>, <<13716797, 24>>,
        <<13949745, 24>>, <<14174291, 24>>, <<7195149, 23>>, <<14597637, 24>>,
        <<14796183, 24>>, <<14985817, 24>>, <<1895803, 21>>, <<15337895, 24>>,
        <<7750063, 23>>, <<15653021, 24>>, <<1974561, 21>>, <<15930439, 24>>,
        <<16054795, 24>>, <<16169479, 24>>, <<2034303, 21>>, <<16369565, 24>>,
        <<8227423, 23>>, <<2066277, 21>>, <<4148907, 22>>, <<4162761, 22>>,
        <<16696429, 24>>, <<16731757, 24>>, <<16757007, 24>>, <<16772163, 24>>,
        <<1, 0>>, <<16772163, 24>>, <<16757007, 24>>, <<16731757, 24>>,
        <<16696429, 24>>, <<16651043, 24>>, <<4148907, 22>>, <<2066277, 21>>,
        <<8227423, 23>>, <<8184783, 23>>, <<2034303, 21>>, <<16169479, 24>>,
        <<8027397, 23>>, <<15930439, 24>>, <<1974561, 21>>, <<7826511, 23>>,
        <<15500127, 24>>, <<7668947, 23>>, <<1895803, 21>>, <<14985817, 24>>,
        <<1849523, 21>>, <<7298819, 23>>, <<7195149, 23>>, <<7087145, 23>>,
        <<6974873, 23>>, <<13716797, 24>>, <<6737793, 23>>, <<13226259, 24>>,
        <<3242241, 22>>, <<793991, 20>>, <<1553887, 21>>, <<6075425, 23>>,
        <<11863283, 24>>, <<5784285, 23>>, <<11266891, 24>>, <<5479211, 23>>,
        <<10643353, 24>>, <<645117, 20>>, <<9994177, 24>>, <<4830229, 23>>,
        <<9320921, 24>>, <<2243943, 22>>, <<8625213, 24>>, <<16538917, 25>>,
        <<15817453, 25>>, <<7543227, 24>>, <<14346367, 25>>, <<13597639, 25>>,
        <<12840727, 25>>, <<6038037, 24>>, <<5652073, 24>>, <<1315677, 22>>,
        <<9740339, 25>>, <<4474697, 24>>, <<16306117, 26>>, <<14703639, 26>>,
        <<13092289, 26>>, <<11473053, 26>>, <<4923461, 25>>, <<8214843, 26>>,
        <<822227, 23>>, <<9873653, 27>>, <<13171517, 28>>, <<6587731, 28>>,
        <<-6151831, 46>>, <<-3293857, 27>>, <<-3292875, 26>>, <<-2468419, 25>>,
        <<-13155623, 27>>, <<-16429677, 27>>, <<-9846917, 26>>, <<-11473065, 26>>,
        <<-13092285, 26>>, <<-14703635, 26>>, <<-1019133, 22>>, <<-559337, 21>>,
        <<-9740337, 25>>, <<-5262707, 24>>, <<-11304151, 25>>, <<-1509509, 22>>,
        <<-12840725, 25>>, <<-13597645, 25>>, <<-7173183, 24>>, <<-3771613, 23>>,
        <<-15817451, 25>>, <<-8269461, 24>>, <<-2156303, 22>>, <<-8975771, 24>>,
        <<-9320923, 24>>, <<-9660457, 24>>, <<-156159, 18>>, <<-5160937, 23>>,
        <<-1330419, 21>>, <<-10958421, 24>>, <<-5633445, 23>>, <<-2892143, 22>>,
        <<-5931641, 23>>, <<-6075425, 23>>, <<-6215549, 23>>, <<-12703855, 24>>,
        <<-12968963, 24>>, <<-13226259, 24>>, <<-13475587, 24>>, <<-13716799, 24>>,
        <<-13949743, 24>>, <<-14174289, 24>>, <<-14390297, 24>>, <<-14597637, 24>>,
        <<-1849523, 21>>, <<-7492909, 23>>, <<-15166425, 24>>, <<-15337893, 24>>,
        <<-7750063, 23>>, <<-15653021, 24>>, <<-1974561, 21>>, <<-1991305, 21>>,
        <<-16054795, 24>>, <<-2021185, 21>>, <<-16274423, 24>>, <<-16369565, 24>>,
        <<-8227423, 23>>, <<-2066277, 21>>, <<-4148907, 22>>, <<-4162761, 22>>,
        <<-16696429, 24>>, <<-16731757, 24>>, <<-16757007, 24>>, <<-16772163, 24>>,
        <<-1, 0>>, <<-16772163, 24>>, <<-16757007, 24>>, <<-16731757, 24>>,
        <<-16696429, 24>>, <<-4162761, 22>>, <<-4148907, 22>>, <<-2066277, 21>>,
        <<-8227423, 23>>, <<-16369565, 24>>, <<-16274423, 24>>, <<-2021185, 21>>,
        <<-16054795, 24>>, <<-1991305, 21>>, <<-1974561, 21>>, <<-15653021, 24>>,
        <<-15500125, 24>>, <<-1917237, 21>>, <<-15166425, 24>>, <<-7492909, 23>>,
        <<-1849523, 21>>, <<-14597637, 24>>, <<-14390297, 24>>, <<-14174289, 24>>,
        <<-13949747, 24>>, <<-13716799, 24>>, <<-13475587, 24>>, <<-6613129, 23>>,
        <<-12968963, 24>>, <<-12703855, 24>>, <<-12431095, 24>>, <<-3037713, 22>>,
        <<-11863285, 24>>, <<-2892143, 22>>, <<-5633445, 23>>, <<-10958421, 24>>,
        <<-10643351, 24>>, <<-10321871, 24>>, <<-9994179, 24>>, <<-2415115, 22>>,
        <<-9320923, 24>>, <<-8975771, 24>>, <<-2156303, 22>>, <<-16538915, 25>>,
        <<-15817443, 25>>, <<-15086459, 25>>, <<-3586593, 23>>, <<-3399411, 23>>,
        <<-12840725, 25>>, <<-12076071, 25>>, <<-11304143, 25>>, <<-5262703, 24>>,
        <<-9740343, 25>>, <<-8949399, 25>>, <<-16306127, 26>>, <<-7351817, 25>>,
        <<-3273071, 24>>, <<-11473047, 26>>, <<-2461725, 24>>, <<-8214853, 26>>,
        <<-3288913, 25>>, <<-9873673, 27>>, <<-6585747, 27>>, <<-13175415, 29>>
    >>

sine_table(i) == SineValues[i + 1]

square_table(i) == IF i < WAVETABLE_SIZE \div 2 THEN <<1, 0>> ELSE <<-1, 0>>

\* Mutation: the ramp of the triangle's first half, which runs on to 3.0.
sawtooth_table_Steep(i) == Canon(4 * i - WAVETABLE_SIZE, 8)

\* (position * 2.0f) - 1.0f = (2i - 256) / 256, exact in single precision
sawtooth_table(i) == Canon(2 * i - WAVETABLE_SIZE, 8)

\* Mutation: the triangle never turns down.
triangle_table_NoFold(i) == Canon(4 * i - WAVETABLE_SIZE, 8)

\* (position * 4.0f) - 1.0f = (4i - 256) / 256 in the first half,
\* 3.0f - (position * 4.0f) = (768 - 4i) / 256 in the second; both exact
triangle_table(i) ==
    IF i < WAVETABLE_SIZE \div 2 THEN Canon(4 * i - WAVETABLE_SIZE, 8)
    ELSE Canon(3 * WAVETABLE_SIZE - 4 * i, 8)

\* The four tables after waveform_init, by waveform type.
InitialWavetable ==
    [t \in WAVEFORM_SINE .. WAVEFORM_TRIANGLE |->
        [i \in 0 .. WAVETABLE_SIZE - 1 |->
            IF t = WAVEFORM_SINE THEN sine_table(i)
            ELSE IF t = WAVEFORM_SQUARE THEN square_table(i)
            ELSE IF t = WAVEFORM_SAWTOOTH THEN sawtooth_table(i)
            ELSE triangle_table(i)]]

\* uint32_t arithmetic on <<high, low>> halves.
U32Add(w, n) ==
    LET low == w[2] + (n % 2^16)
        high == w[1] + (n \div 2^16) + (low \div 2^16)
    IN  <<high % 2^16, low % 2^16>>

\* (a - b) mod 2^32
U32Sub(a, b) ==
    LET borrow == IF a[2] < b[2] THEN 1 ELSE 0
    IN  <<(a[1] - b[1] - borrow) % 2^16, (a[2] - b[2]) % 2^16>>

\* Mutation: a sample rate of 48000.
Quarter_Rate_48k == 48000 \div 4

\* f / SAMPLE_RATE * 2^32 for a frequency of grid integer f is
\* f * 2^13 / SAMPLE_RATE = f * 2^11 / Quarter_Rate.
Quarter_Rate == SAMPLE_RATE \div 4

\* Mutation: the quotient not rounded to a float before it is truncated.
PhaseIncrement_Unrounded(f) ==
    2^11 * (f \div Quarter_Rate) + ((2^11 * (f % Quarter_Rate)) \div Quarter_Rate)

\* Mutation: the division made on integers, which leaves no fraction to
\* scale.
PhaseIncrement_IntegerDivision(f) == ((f \div Hz) \div SAMPLE_RATE) * 2^16 * 2^8

\* (uint32_t)((frequency / (float)SAMPLE_RATE) * PHASE_SCALE) for a frequency
\* f >= 0 on the grid.  The quotient is rounded to a float; PHASE_SCALE = 2^32
\* scales it exactly; the conversion drops the fraction.  So the result is
\* the integer part of x = f / SAMPLE_RATE * 2^32 rounded to 24 significant
\* bits.
PhaseIncrement(f) ==
    LET a == f \div Quarter_Rate
        b == f % Quarter_Rate
        whole == 2^11 * a + ((2^11 * b) \div Quarter_Rate)   \* integer part of x
        rem == (2^11 * b) % Quarter_Rate            \* x - whole = rem / Quarter_Rate
        q == Ulp(whole)
        n == whole \div q
        r == whole - n * q
        s == 24 - BitLen(whole)                     \* fraction bits kept
    IN  IF whole >= 2^24
        THEN IF 2 * r < q THEN n * q
             ELSE IF 2 * r > q \/ rem > 0 THEN (n + 1) * q
             ELSE IF n % 2 = 0 THEN n * q
             ELSE (n + 1) * q
        ELSE IF /\ whole > 0
                /\ s <= 12
                /\ 2 * rem * 2^s >= (2^(s + 1) - 1) * Quarter_Rate
             THEN whole + 1
             ELSE whole

\* void waveform_init(void)
WaveformInit ==
    /\ wavetable' = InitialWavetable
    /\ op' = "waveform_init"
    /\ UNCHANGED <<autotune_vars, pipe_vars, phase, phase_increment, waveform_type,
                   frequency, sample, samples, start_phase, start_samples,
                   pwm_vars>>

\* void oscillator_init(Oscillator* osc, WaveformType type)
OscillatorInit(type) ==
    /\ phase' = <<0, 0>>
    /\ phase_increment' = 0
    /\ waveform_type' = type
    /\ op' = "oscillator_init"
    /\ frequency' = 0
    /\ samples' = 0
    /\ start_phase' = <<0, 0>>
    /\ start_samples' = 0
    /\ UNCHANGED <<autotune_vars, pipe_vars, wavetable, sample, pwm_vars>>

\* void oscillator_set_frequency(Oscillator* osc, float frequency)
OscillatorSetFrequency(f) ==
    /\ phase_increment' = PhaseIncrement(f)
    /\ op' = "oscillator_set_frequency"
    /\ frequency' = f
    /\ start_phase' = phase
    /\ start_samples' = samples
    /\ UNCHANGED <<autotune_vars, pipe_vars, wavetable, phase, waveform_type, sample, samples,
                   pwm_vars>>

\* Mutation: the waveform change also restarts the cycle.
OscillatorSetWaveform_Restart(type) ==
    /\ waveform_type' = type
    /\ phase' = <<0, 0>>
    /\ op' = "oscillator_set_waveform"
    /\ UNCHANGED <<autotune_vars, pipe_vars, wavetable, phase_increment, frequency,
                   sample, samples, start_phase, start_samples, pwm_vars>>

\* void oscillator_set_waveform(Oscillator* osc, WaveformType type)
OscillatorSetWaveform(type) ==
    /\ waveform_type' = type
    /\ op' = "oscillator_set_waveform"
    /\ UNCHANGED <<autotune_vars, pipe_vars, wavetable, phase, phase_increment, frequency,
                   sample, samples, start_phase, start_samples, pwm_vars>>

\* table_index = (osc->phase >> 24) & 0xFF
TableIndex(w) == (w[1] \div 2^8) % WAVETABLE_SIZE

\* The switch of oscillator_generate_sample: the table entry, or 0.0f for a
\* waveform type that is none of the four.
LookUpSample(type, w) ==
    IF type \in WAVEFORM_SINE .. WAVEFORM_TRIANGLE
    THEN wavetable[type][TableIndex(w)]
    ELSE <<0, 0>>

\* Mutation: the phase advanced before the table is read.
OscillatorGenerateSample_AdvanceFirst ==
    /\ sample' = LookUpSample(waveform_type, U32Add(phase, phase_increment))
    /\ phase' = U32Add(phase, phase_increment)
    /\ op' = "oscillator_generate_sample"
    /\ samples' = samples + 1
    /\ UNCHANGED <<autotune_vars, pipe_vars, wavetable, phase_increment, waveform_type,
                   frequency, start_phase, start_samples, pwm_vars>>

\* float oscillator_generate_sample(Oscillator* osc)
OscillatorGenerateSample ==
    /\ sample' = LookUpSample(waveform_type, phase)
    /\ phase' = U32Add(phase, phase_increment)
    /\ op' = "oscillator_generate_sample"
    /\ samples' = samples + 1
    /\ UNCHANGED <<autotune_vars, pipe_vars, wavetable, phase_increment, waveform_type,
                   frequency, start_phase, start_samples, pwm_vars>>

\* ------------------------------------------------------------------------
\* autotune_init: the note table
\* ------------------------------------------------------------------------

\* REFERENCE_A4 * powf(2.0f, (float)k / 12.0f) in single precision (powf
\* correctly rounded), for k = -49 .. 11 semitones from A4, on the grid.
EqualTemperament ==
    <<  13608702,  14417920,  15275253,  16183570,  17145892,  18165440,
        19245616,  20390018,  21602470,  22887022,  24247954,  25689810,
        27217410,  28835840,  30550506,  32367140,  34291784,  36330880,
        38491232,  40780036,  43204940,  45774044,  48495908,  51379620,
        54434820,  57671680,  61101020,  64734272,  68583568,  72661768,
        76982456,  81560072,  86409888,  91548088,  96991816, 102759256,
       108869632, 115343360, 122202024, 129468544, 137167136, 145323536,
       153964912, 163120144, 172819776, 183096176, 193983632, 205518496,
       217739264, 230686720, 244404080, 258937088, 274334272, 290647072,
       307929824, 326240288, 345639552, 366192352, 387967264, 411036992,
       435478528 >>

\* Mutation: the reference note placed one index too low.
note_frequency_ref48(note_num) ==
    LET semitones_from_a4 == note_num - 48
    IN  EqualTemperament[semitones_from_a4 + 50]

\* The loop body of autotune_init: the frequency stored at note_num.
note_frequency(note_num) ==
    LET semitones_from_a4 == note_num - 49
    IN  EqualTemperament[semitones_from_a4 + 50]

\* The table autotune_init leaves behind.
InitialNoteTable == [note_num \in 0 .. NUM_NOTES - 1 |-> note_frequency(note_num)]

\* ------------------------------------------------------------------------
\* find_nearest_note
\* ------------------------------------------------------------------------

\* The two clamping ifs at the head of find_nearest_note.
ClampInput(f) ==
    LET f1 == IF f < FIRST_NOTE_FREQ THEN FIRST_NOTE_FREQ ELSE f
    IN  IF f1 > note_table[NUM_NOTES - 1] THEN note_table[NUM_NOTES - 1] ELSE f1

\* fabsf(input_freq - note_freq)
Distance(f, note_freq) == Abs(RoundF(f - note_freq))

\* Mutation: the comparison made non-strict, so the last minimum wins.
IsCloser_OrEqual(distance, closest_distance) == distance <= closest_distance

\* The scan's test, distance < closest_distance.
IsCloser(distance, closest_distance) == distance < closest_distance

\* Mutation: the scan stops one entry early.
ScanEnd_OneShort == NUM_NOTES - 1

\* The scan's upper limit, i < NUM_NOTES.
ScanEnd == NUM_NOTES

\* The for loop from index i on, carrying closest_distance and closest_freq.
RECURSIVE ScanNotes(_, _, _, _)
ScanNotes(f, i, closest_distance, closest_freq) ==
    IF i >= ScanEnd THEN closest_freq
    ELSE LET note_freq == note_table[i]
             distance == Distance(f, note_freq)
         IN  IF IsCloser(distance, closest_distance)
             THEN ScanNotes(f, i + 1, distance, note_freq)
             ELSE ScanNotes(f, i + 1, closest_distance, closest_freq)

\* Mutation: the clamped input returned in place of the note.
find_nearest_note_Unsnapped(f) == ClampInput(f)

find_nearest_note(f) == ScanNotes(ClampInput(f), 0, INITIAL_DISTANCE, REFERENCE_A4)

\* ------------------------------------------------------------------------
\* process_autotune, reset_autotune
\* ------------------------------------------------------------------------

\* Mutation: the threshold test made non-strict.
NeedsRetarget_AtLeast(f, last) == Abs(RoundF(f - last)) >= One

\* Mutation: a retarget only for a change of more than 2 Hz.
NeedsRetarget_Loose(f, last) == Abs(RoundF(f - last)) > 2 * One

\* STEP 1: freq_change = fabsf(input_freq - last_input_freq) > 1.0f
NeedsRetarget(f, last) == Abs(RoundF(f - last)) > One

\* cur + adjustment rounded to a float, the adjustment given as <<whole,
\* sticky>>.
AddParts(cur, adjustment) ==
    IF adjustment[2] THEN RoundSticky(cur + adjustment[1], TRUE)
    ELSE RoundF(cur + adjustment[1])

\* Mutation: twice the adjustment.
Glide_Twice(cur, tgt, g) ==
    LET difference == RoundF(tgt - cur)
        adjustment == MulF(difference, g)
    IN  RoundF(cur + 2 * adjustment)

\* Mutation: the adjustment subtracted instead of added.
Glide_Away(cur, tgt, g) ==
    LET difference == RoundF(tgt - cur)
        adjustment == MulF(difference, g)
    IN  RoundF(cur - adjustment)

\* Mutation: the glide measured from the target instead of added to current.
Glide_Overshoot(cur, tgt, g) ==
    LET difference == RoundF(tgt - cur)
        adjustment == MulF(difference, g)
    IN  RoundF(tgt + adjustment)

\* STEP 2: current_freq += (target_freq - current_freq) * glide_rate
Glide(cur, tgt, g) == AddParts(cur, MulParts(RoundF(tgt - cur), g))

\* Mutation: the whole correction applied whatever the strength.
Blend_FullStrength(f, cur, s) ==
    LET correction == RoundF(cur - f)
    IN  RoundF(f + correction)

\* Mutation: the blend started from the corrected frequency.
Blend_FromCurrent(f, cur, s) ==
    LET correction == RoundF(cur - f)
    IN  RoundF(cur + MulF(correction, s))

\* STEP 3: output_freq = input_freq + (current_freq - input_freq) * strength
Blend(f, cur, s) ==
    LET correction == RoundF(cur - f)
    IN  RoundF(f + MulF(correction, s))

\* Arguments the calls are made with.  Every input is a float on the grid.
ProcessInputs ==
    { 0, Half, One, One + 1, 60 * Hz, 427 * Hz + Half, 428 * Hz, 2093 * Hz }

Strengths == {0, One}

GlideRates == {0, Half, One}

\* Mutation: the glide applied before the retarget, toward the old target.
process_autotune_GlideFirst(f, s, g) ==
    /\ LET retarget == NeedsRetarget(f, last_input_freq)
           cur == Glide(current_freq, target_freq, g)
       IN  /\ target_freq' = (IF retarget THEN find_nearest_note(f) ELSE target_freq)
           /\ last_input_freq' = (IF retarget THEN f ELSE last_input_freq)
           /\ current_freq' = cur
           /\ output_freq' = Blend(f, cur, s)
    /\ op' = "process_autotune"
    /\ input_freq' = f
    /\ strength' = s
    /\ glide_rate' = g
    /\ calls' = calls + 1
    /\ UNCHANGED <<note_table, osc_vars, pipe_vars, pwm_vars>>

\* Mutation: last_input_freq follows every call's input, retarget or not.
process_autotune_TracksEveryInput(f, s, g) ==
    /\ LET retarget == NeedsRetarget(f, last_input_freq)
           tgt == IF retarget THEN find_nearest_note(f) ELSE target_freq
           cur == Glide(current_freq, tgt, g)
       IN  /\ target_freq' = tgt
           /\ last_input_freq' = f
           /\ current_freq' = cur
           /\ output_freq' = Blend(f, cur, s)
    /\ op' = "process_autotune"
    /\ input_freq' = f
    /\ strength' = s
    /\ glide_rate' = g
    /\ calls' = calls + 1
    /\ UNCHANGED <<note_table, osc_vars, pipe_vars, pwm_vars>>

\* float process_autotune(float input_freq, float strength, float glide_rate)
process_autotune(f, s, g) ==
    /\ LET retarget == NeedsRetarget(f, last_input_freq)
           tgt == IF retarget THEN find_nearest_note(f) ELSE target_freq
           cur == Glide(current_freq, tgt, g)
       IN  /\ target_freq' = tgt
           /\ last_input_freq' = (IF retarget THEN f ELSE last_input_freq)
           /\ current_freq' = cur
           /\ output_freq' = Blend(f, cur, s)
    /\ op' = "process_autotune"
    /\ input_freq' = f
    /\ strength' = s
    /\ glide_rate' = g
    /\ calls' = calls + 1
    /\ UNCHANGED <<note_table, osc_vars, pipe_vars, pwm_vars>>

\* A call with arbitrary arguments, while the call budget lasts.
ProcessAutotune(f, s, g) ==
    /\ calls < MaxCalls
    /\ process_autotune(f, s, g)

\* Mutation: the reset leaves last_input_freq as it was.
ResetAutotune_KeepsLastInput ==
    /\ current_freq' = REFERENCE_A4
    /\ target_freq' = REFERENCE_A4
    /\ op' = "reset_autotune"
    /\ input_freq' = 0 /\ strength' = 0 /\ glide_rate' = 0 /\ output_freq' = 0
    /\ UNCHANGED <<note_table, last_input_freq, calls, osc_vars, pipe_vars,
                   pwm_vars>>

\* void reset_autotune(void)
ResetAutotune ==
    /\ current_freq' = REFERENCE_A4
    /\ target_freq' = REFERENCE_A4
    /\ last_input_freq' = 0
    /\ op' = "reset_autotune"
    /\ input_freq' = 0 /\ strength' = 0 /\ glide_rate' = 0 /\ output_freq' = 0
    /\ UNCHANGED <<note_table, calls, osc_vars, pipe_vars, pwm_vars>>

\* void autotune_init(void), called again on an initialised engine
AutotuneInit ==
    /\ note_table' = InitialNoteTable
    /\ current_freq' = REFERENCE_A4
    /\ target_freq' = REFERENCE_A4
    /\ last_input_freq' = 0
    /\ op' = "autotune_init"
    /\ input_freq' = 0 /\ strength' = 0 /\ glide_rate' = 0 /\ output_freq' = 0
    /\ UNCHANGED <<calls, osc_vars, pipe_vars, pwm_vars>>

\* ------------------------------------------------------------------------
\* sound_profiles.c: the sample pipeline
\* ------------------------------------------------------------------------

AUDIO_BUFFER_SIZE == 256

PROFILE_AUTOTUNE == 0

ADC_MAX_VALUE == 4095

\* MIN_FREQUENCY 65.41f, the same literal as FIRST_NOTE_FREQ, and
\* MAX_FREQUENCY 2093.0f.
MIN_FREQUENCY == FIRST_NOTE_FREQ

MAX_FREQUENCY == 2093 * Hz

\* A product of 4096 Hz or more, above the grid: held as the largest
\* integer.
AboveGrid == 2^30 + (2^30 - 1)

\* MIN_FREQUENCY * powf(2.0f, (float)adc_value / 4095.0f * 5.0f) in single
\* precision on the grid, as <<adc_value, product>>, for every 32nd reading
\* of the converter, the readings next to its ends, and uint16 values
\* beyond ADC_MAX_VALUE.
ExponentialProducts ==
    { <<0, 34293680>>, <<1, 34322716>>, <<2, 34351776>>,
      <<32, 35235136>>, <<64, 36202436>>, <<96, 37196292>>,
      <<128, 38217432>>, <<160, 39266608>>, <<192, 40344584>>,
      <<224, 41452152>>, <<256, 42590128>>, <<288, 43759340>>,
      <<320, 44960656>>, <<352, 46194952>>, <<384, 47463128>>,
      <<416, 48766120>>, <<448, 50104884>>, <<480, 51480404>>,
      <<512, 52893680>>, <<544, 54345760>>, <<576, 55837700>>,
      <<608, 57370596>>, <<640, 58945572>>, <<672, 60563792>>,
      <<704, 62226432>>, <<736, 63934720>>, <<768, 65689904>>,
      <<800, 67493272>>, <<832, 69346152>>, <<864, 71249888>>,
      <<896, 73205896>>, <<928, 75215600>>, <<960, 77280472>>,
      <<992, 79402040>>, <<1024, 81581840>>, <<1056, 83821480>>,
      <<1088, 86122616>>, <<1120, 88486912>>, <<1152, 90916120>>,
      <<1184, 93412016>>, <<1216, 95976432>>, <<1248, 98611256>>,
      <<1280, 101318400>>, <<1312, 104099864>>, <<1344, 106957696>>,
      <<1376, 109893984>>, <<1408, 112910872>>, <<1440, 116010584>>,
      <<1472, 119195392>>, <<1504, 122467632>>, <<1536, 125829704>>,
      <<1568, 129284072>>, <<1600, 132833280>>, <<1632, 136479904>>,
      <<1664, 140226672>>, <<1696, 144076272>>, <<1728, 148031568>>,
      <<1760, 152095440>>, <<1792, 156270880>>, <<1824, 160560944>>,
      <<1856, 164968768>>, <<1888, 169497632>>, <<1920, 174150800>>,
      <<1952, 178931712>>, <<1984, 183843872>>, <<2016, 188890896>>,
      <<2048, 194076464>>, <<2080, 199404400>>, <<2112, 204878608>>,
      <<2144, 210503072>>, <<2176, 216281968>>, <<2208, 222219504>>,
      <<2240, 228320032>>, <<2252, 230650672>>, <<2272, 234588032>>,
      <<2304, 241028128>>, <<2336, 247645008>>, <<2368, 254443536>>,
      <<2400, 261428720>>, <<2432, 268605664>>, <<2464, 275979616>>,
      <<2496, 283556000>>, <<2528, 291340416>>, <<2560, 299338496>>,
      <<2592, 307556160>>, <<2624, 315999424>>, <<2656, 324674464>>,
      <<2688, 333587680>>, <<2720, 342745568>>, <<2752, 352154880>>,
      <<2784, 361822496>>, <<2816, 371755488>>, <<2848, 381961216>>,
      <<2880, 392447104>>, <<2912, 403220864>>, <<2944, 414290336>>,
      <<2976, 425663776>>, <<3008, 437349408>>, <<3040, 449355840>>,
      <<3072, 461691904>>, <<3104, 474366592>>, <<3136, 487389280>>,
      <<3168, 500769440>>, <<3200, 514516928>>, <<3232, 528641824>>,
      <<3264, 543154496>>, <<3296, 558065664>>, <<3328, 573386112>>,
      <<3360, 589127104>>, <<3392, 605300224>>, <<3424, 621917376>>,
      <<3456, 638990784>>, <<3488, 656532800>>, <<3520, 674556416>>,
      <<3552, 693074880>>, <<3584, 712101632>>, <<3616, 731650816>>,
      <<3648, 751736640>>, <<3680, 772373888>>, <<3712, 793577664>>,
      <<3744, 815363520>>, <<3776, 837747456>>, <<3808, 860745920>>,
      <<3840, 884375744>>, <<3872, 908654336>>, <<3904, 933599424>>,
      <<3936, 959229248>>, <<3968, 985562688>>, <<4000, 1012619136>>,
      <<4032, 1040418240>>, <<4064, 1068980608>>, <<4093, 1095541888>>,
      <<4094, 1096469248>>, <<4095, 1097397760>>, <<4096, 1098327168>>,
      <<4097, 1099256704>>, <<8190, AboveGrid>>, <<32768, AboveGrid>>,
      <<65535, AboveGrid>> }

ExponentialMap(adc) == (CHOOSE p \in ExponentialProducts : p[1] = adc)[2]

\* Mutation: the upper clamp left out.
ClampFrequency_NoCeiling(f) ==
    IF f < MIN_FREQUENCY THEN MIN_FREQUENCY ELSE f

\* The two clamping ifs of adc_value_to_frequency.
ClampFrequency(f) ==
    IF f < MIN_FREQUENCY THEN MIN_FREQUENCY
    ELSE IF f > MAX_FREQUENCY THEN MAX_FREQUENCY
    ELSE f

\* float adc_value_to_frequency(uint16_t adc_value)
adc_value_to_frequency(adc) == ClampFrequency(ExponentialMap(adc))

\* The readings adc_read() returns: the two ends of the range, one just
\* below A4, and the largest uint16_t, above the range.
AdcReadings == {0, 2252, ADC_MAX_VALUE, 65535}

\* R * 2^-k without its fraction.
WholePart(R, k) ==
    IF k <= 0 THEN R * 2^(-k)
    ELSE IF k > 30 THEN 0
    ELSE R \div 2^k

\* The conversion to int16_t drops the fraction of the float product
\* R * 2^(d - e) (truncation toward zero).
Magnitude(e, dR) == WholePart(dR[2], e - dR[1])

WithSign(m, magnitude) == IF m < 0 THEN -magnitude ELSE magnitude

\* (int16_t)(sample_float * 32767.0f) for the sample m * 2^-e.
ToInt16(s) == WithSign(s[1], Magnitude(s[2], FloatProduct(Abs(s[1]), 32767)))

\* The phase after k calls of oscillator_generate_sample, k < 2^15: k
\* additions of the increment modulo 2^32 add k times its low half and,
\* to the high half, k times its high half.
PhaseAfter(w, increment, k) ==
    LET low == U32Add(w, k * (increment % 2^16))
    IN  <<(low[1] + k * (increment \div 2^16)) % 2^16, low[2]>>

\* k >= 1 calls of oscillator_generate_sample in a row.
OscillatorGenerateSamples(k) ==
    /\ sample' = LookUpSample(waveform_type, PhaseAfter(phase, phase_increment, k - 1))
    /\ phase' = PhaseAfter(phase, phase_increment, k)
    /\ op' = "oscillator_generate_sample"
    /\ samples' = samples + k
    /\ UNCHANGED <<autotune_vars, pipe_vars, wavetable, phase_increment, waveform_type,
                   frequency, start_phase, start_samples, pwm_vars>>

\* The oscillator after main's waveform_init(), oscillator_init(&oscillator,
\* WAVEFORM_SINE) and oscillator_set_frequency(&oscillator, 440.0f).
InitOscillator ==
    /\ wavetable = InitialWavetable
    /\ phase = <<0, 0>>
    /\ phase_increment = PhaseIncrement(REFERENCE_A4)
    /\ waveform_type = WAVEFORM_SINE
    /\ frequency = REFERENCE_A4
    /\ sample = <<0, 0>>
    /\ samples = 0
    /\ start_phase = <<0, 0>>
    /\ start_samples = 0

\* The engine after autotune_init() at startup.
InitAutotune ==
    /\ note_table = InitialNoteTable
    /\ current_freq = REFERENCE_A4
    /\ target_freq = REFERENCE_A4
    /\ last_input_freq = 0
    /\ op = "autotune_init"
    /\ input_freq = 0 /\ strength = 0 /\ glide_rate = 0 /\ output_freq = 0
    /\ calls = 0

\* ------------------------------------------------------------------------
\* audio_output.c: the PWM wavetable path
\* ------------------------------------------------------------------------

\* #define N 1000, the length of wavetable
N == 1000

\* int rate = 20000
rate == 20000

\* The frequencies of this path are integers counting 2^-6 Hz.
PwmHz == 2^6

\* N << 16
TableSpan == N * 2^16

\* p / (rate / 2^5): the integer part of the float quotient (p / rate) *
\* (1 << 16) before it is rounded, p counting 2^-6 Hz.
StepWhole(p) ==
    2^5 * (p \div (rate \div 2^5)) + ((2^5 * (p % (rate \div 2^5))) \div (rate \div 2^5))

\* What the integer part leaves, in units of 1 / (rate / 2^5).
StepRem(p) == (2^5 * (p % (rate \div 2^5))) % (rate \div 2^5)

\* whole + rem / den rounded to a float of at least 2^24, an integer.
RoundLarge(whole, rem) ==
    LET q == Ulp(whole)
        n == whole \div q
        r == whole % q
    IN  IF 2 * r < q THEN n * q
        ELSE IF 2 * r > q \/ rem > 0 THEN (n + 1) * q
        ELSE IF n % 2 = 0 THEN n * q
        ELSE (n + 1) * q

\* The float nearest to whole + rem / den, below 2^24, is whole + 1: the
\* fraction is within half a unit of the last of the s fraction bits kept.
RoundsUpToNext(whole, rem, den, s) ==
    /\ whole > 0
    /\ s <= 12
    /\ 2 * rem * 2^s >= (2^(s + 1) - 1) * den

\* (int)(x * (1 << 16)) for the float x nearest to p / rate.
TruncatedStep(whole, rem) ==
    IF whole >= 2^24 THEN RoundLarge(whole, rem)
    ELSE IF RoundsUpToNext(whole, rem, rate \div 2^5, 24 - BitLen(whole))
         THEN whole + 1
         ELSE whole

\* (f * N / rate) * (1<<16) converted to int, for f > 0: the product and the
\* quotient are rounded to floats, the scaling by 2^16 is exact, and the
\* conversion drops the fraction.
StepOf(f) ==
    TruncatedStep(StepWhole(RoundF(f * N)), StepRem(RoundF(f * N)))

\* Mutation: the offset wrapped only when it is above N << 16.
Wrap_Above(offset) ==
    IF offset > TableSpan THEN offset - TableSpan ELSE offset

\* if (offset >= (N << 16)) offset = offset - (N << 16)
Wrap(offset) ==
    IF offset >= TableSpan THEN offset - TableSpan ELSE offset

\* Samples the PWM handler creates in a run.
MaxPwmSamples == 2

\* Frequencies set_freq is called with: 0, A4, half the rate (whose second
\* step lands on N << 16 exactly), and the largest multiple of 1/64 Hz
\* below the rate.
PwmFrequencies ==
    { 0, 440 * PwmHz, (rate \div 2) * PwmHz, rate * PwmHz - 1 }

\* int step0 = 0; int offset0 = 0; int step1 = 0; int offset1 = 0;
InitPwm ==
    /\ step0 = 0 /\ offset0 = 0
    /\ step1 = 0 /\ offset1 = 0
    /\ chan = 0 /\ pwm_freq = 0
    /\ pwm_samples = 0

\* void set_freq(int chan, float f)
SetFreq(c, f) ==
    /\ step0' = (IF c # 0 THEN step0 ELSE IF f = 0 THEN 0 ELSE StepOf(f))
    /\ offset0' = (IF c = 0 /\ f = 0 THEN 0 ELSE offset0)
    /\ step1' = (IF c # 1 THEN step1 ELSE IF f = 0 THEN 0 ELSE StepOf(f))
    /\ offset1' = (IF c = 1 /\ f = 0 THEN 0 ELSE offset1)
    /\ chan' = c
    /\ pwm_freq' = f
    /\ op' = "set_freq"
    /\ UNCHANGED <<autotune_vars, osc_vars, pipe_vars, pwm_samples>>

\* int create_sine_samp(uint slice_num): the two offsets advanced and
\* wrapped; wavetable is then read at offset0 >> 16 and offset1 >> 16.
CreateSineSamp ==
    /\ pwm_samples < MaxPwmSamples
    /\ offset0' = Wrap(offset0 + step0)
    /\ offset1' = Wrap(offset1 + step1)
    /\ pwm_samples' = pwm_samples + 1
    /\ op' = "create_sine_samp"
    /\ UNCHANGED <<autotune_vars, osc_vars, pipe_vars, step0, step1, chan, pwm_freq>>

\* The globals of sound_profiles.c at the start of main's loop; the sink has
\* been handed nothing.
InitBuffers ==
    /\ audio_buffer = [i \in 0 .. AUDIO_BUFFER_SIZE - 1 |-> 0]
    /\ buffer_index = 0
    /\ adc_value = 0
    /\ debug_counter = 0
    /\ handoffs = 0
    /\ sink_handoff = 0
    /\ sink_index = 0

\* uint8_t current_profile = PROFILE_AUTOTUNE; no code of the repository
\* assigns it again.
InitPipeline ==
    /\ InitBuffers
    /\ current_profile = PROFILE_AUTOTUNE

\* The program after the initialisation steps of main.
Init ==
    /\ InitAutotune
    /\ InitOscillator
    /\ InitPipeline
    /\ InitPwm

\* float find_nearest_note(float input_freq), called directly
FindNearestNote(f) ==
    /\ op' = "find_nearest_note"
    /\ input_freq' = f
    /\ output_freq' = find_nearest_note(f)
    /\ strength' = 0 /\ glide_rate' = 0
    /\ UNCHANGED <<note_table, current_freq, target_freq, last_input_freq, calls,
                   osc_vars, pipe_vars, pwm_vars>>

\* The float just above / just below the float x > 0.
NextUp(x) == x + Ulp(x)
NextDown(x) == IF x - Ulp(x) >= 2^23 * Ulp(x) \/ Ulp(x) = 1
               THEN x - Ulp(x) ELSE x - Ulp(x) \div 2

\* Inputs of the direct lookups: every table entry, the float at (or next to)
\* the midpoint of every adjacent pair with its two neighbours, and values
\* below, at and above the ends of the range.
Midpoints ==
    { RoundF((note_frequency(i) + note_frequency(i + 1)) \div 2) : i \in 0 .. NUM_NOTES - 2 }

NearestInputs ==
    { note_frequency(i) : i \in 0 .. NUM_NOTES - 1 }
    \cup Midpoints
    \cup { NextUp(m) : m \in Midpoints }
    \cup { NextDown(m) : m \in Midpoints }
    \cup { -100 * Hz, 0, 10 * Hz,
           NextDown(FIRST_NOTE_FREQ), FIRST_NOTE_FREQ, NextUp(FIRST_NOTE_FREQ),
           NextDown(note_frequency(NUM_NOTES - 1)), NextUp(note_frequency(NUM_NOTES - 1)),
           2093 * Hz, 4000 * Hz }

\* Inputs of the runs that mix lookups with the corrector's calls.
EngineInputs == { 60 * Hz, 428 * Hz }

\* The corrector: autotune_init, reset_autotune and process_autotune in any order.
Next ==
    \/ AutotuneInit
    \/ ResetAutotune
    \/ \E f \in ProcessInputs, s \in Strengths, g \in GlideRates :
          ProcessAutotune(f, s, g)

Spec == Init /\ [][Next]_vars

\* The lookup alone, on an initialised table.
NextNearest == \E f \in NearestInputs : FindNearestNote(f)

SpecNearest == Init /\ [][NextNearest]_vars

\* All four functions of autotune.h in any order.
NextEngine ==
    \/ AutotuneInit
    \/ ResetAutotune
    \/ \E f \in EngineInputs, s \in Strengths, g \in GlideRates :
          ProcessAutotune(f, s, g)
    \/ \E f \in EngineInputs : FindNearestNote(f)

SpecEngine == Init /\ [][NextEngine]_vars

\* ------------------------------------------------------------------------
\* Runs of calls with a constant input and a constant glide rate
\* ------------------------------------------------------------------------

\* Calls of one run (from A4 the glide comes to rest within 26 calls at
\* glide_rate 0.5 and within 61 calls at 0.25).
MaxGlideCalls == 64

Quarter == Hz \div 4

\* Inputs of the runs: test_autotune.c's 442 Hz and 294 Hz and 523 Hz of its
\* rapid-change sequence, and 100 Hz and 700 Hz further from A4.
GlideInputs == { 100 * Hz, 294 * Hz, 442 * Hz, 523 * Hz, 700 * Hz }

RunStrengths == {Half, One}

\* 0.25, AUTOTUNE_GLIDE and test_autotune.c's 0.5
RunGlides == {Quarter, AUTOTUNE_GLIDE, Half}

\* The first call after initialisation may snap (glide_rate 1.0f) to put
\* current_freq on another note; a run starts after it or at once.
ProcessSnap(f, s) ==
    /\ calls = 0
    /\ process_autotune(f, s, One)

\* The first call of a run picks the input and the glide rate.
ProcessFirst(f, s, g) ==
    /\ calls < MaxGlideCalls
    /\ op # "process_autotune" \/ (calls = 1 /\ glide_rate = One)
    /\ process_autotune(f, s, g)

\* Every later call of the run repeats them.
ProcessAgain(s) ==
    /\ calls < MaxGlideCalls
    /\ op = "process_autotune"
    /\ glide_rate # One
    /\ process_autotune(input_freq, s, glide_rate)

NextGlide ==
    \/ \E f \in GlideInputs, s \in RunStrengths : ProcessSnap(f, s)
    \/ \E f \in GlideInputs, s \in RunStrengths, g \in RunGlides :
          ProcessFirst(f, s, g)
    \/ \E s \in RunStrengths : ProcessAgain(s)

SpecGlide == Init /\ [][NextGlide]_vars

\* ------------------------------------------------------------------------
\* Full correction with inputs that jump about the instrument range
\* ------------------------------------------------------------------------

MaxRangeCalls == 4

\* The ends of the range and two of test_autotune.c's rapid changes.
RangeInputs == { FIRST_NOTE_FREQ, 294 * Hz, 659 * Hz, MAX_FREQUENCY }

RangeGlides == {0, AUTOTUNE_GLIDE, One}

ProcessInRange(f, g) ==
    /\ calls < MaxRangeCalls
    /\ process_autotune(f, One, g)

NextRange ==
    \/ ResetAutotune
    \/ \E f \in RangeInputs, g \in RangeGlides : ProcessInRange(f, g)

SpecRange == Init /\ [][NextRange]_vars

\* ------------------------------------------------------------------------
\* The oscillator read at any phase and with any waveform type
\* ------------------------------------------------------------------------

MaxReadSamples == 1

\* The four waveform types and a value that is none of them.
WaveformTypes == WAVEFORM_SINE .. WAVEFORM_TRIANGLE + 1

\* The first and the last phase of every table index.
ReadPhases ==
    { <<2^8 * i, 0>> : i \in 0 .. WAVETABLE_SIZE - 1 }
    \cup { <<2^8 * i + 2^8 - 1, 2^16 - 1>> : i \in 0 .. WAVETABLE_SIZE - 1 }

\* An oscillator that has run for a while: any phase, any waveform type.
InitRead ==
    /\ InitAutotune
    /\ InitPipeline
    /\ InitPwm
    /\ wavetable = InitialWavetable
    /\ phase \in ReadPhases
    /\ phase_increment = PhaseIncrement(REFERENCE_A4)
    /\ waveform_type \in WaveformTypes
    /\ frequency = REFERENCE_A4
    /\ sample = <<0, 0>>
    /\ samples = 0
    /\ start_phase = phase
    /\ start_samples = 0

GenerateRead ==
    /\ samples < MaxReadSamples
    /\ OscillatorGenerateSample

NextRead ==
    \/ WaveformInit
    \/ GenerateRead
    \/ \E type \in WaveformTypes : OscillatorSetWaveform(type)

SpecRead == InitRead /\ [][NextRead]_vars

\* ------------------------------------------------------------------------
\* The oscillator retuned at any phase
\* ------------------------------------------------------------------------

\* Frequencies the oscillator is set to: every note of the table (what the
\* corrector settles on), the ends of the instrument range, and 0, 2^-19, 1,
\* 16, 100, 441 and 4095 Hz.
TuneFrequencies ==
    { note_frequency(i) : i \in 0 .. NUM_NOTES - 1 }
    \cup { 0, 1, Hz, 16 * Hz, FIRST_NOTE_FREQ, 100 * Hz, 441 * Hz,
           MAX_FREQUENCY, 4095 * Hz }

TunePhases == { <<0, 0>>, <<2^15, 1>>, <<2^16 - 1, 2^16 - 1>> }

InitTune ==
    /\ InitAutotune
    /\ InitPipeline
    /\ InitPwm
    /\ wavetable = InitialWavetable
    /\ phase \in TunePhases
    /\ phase_increment = PhaseIncrement(REFERENCE_A4)
    /\ waveform_type \in WaveformTypes
    /\ frequency = REFERENCE_A4
    /\ sample = <<0, 0>>
    /\ samples = 0
    /\ start_phase = phase
    /\ start_samples = 0

NextTune ==
    \/ \E f \in TuneFrequencies : OscillatorSetFrequency(f)
    \/ \E type \in WaveformTypes : OscillatorSetWaveform(type)

SpecTune == InitTune /\ [][NextTune]_vars

\* ------------------------------------------------------------------------
\* The oscillator run over one period of a frequency that divides the
\* sample rate
\* ------------------------------------------------------------------------

\* Samples generated at the initial 440 Hz before the frequency is set.
MaxRunIn == 2

\* f is a multiple of 1/64 Hz and SAMPLE_RATE / f is an integer.
DividesSampleRate(f) ==
    /\ f > 0
    /\ f % 2^13 = 0
    /\ (SAMPLE_RATE * 2^6) % (f \div 2^13) = 0

\* SAMPLE_RATE / f
SamplesPerCycle(f) == (SAMPLE_RATE * 2^6) \div (f \div 2^13)

\* 2756.25, 1764, 1102.5, 882, 700, 441, 300, 172.265625 and 100 Hz:
\* periods of 16, 25, 40, 50, 63, 100, 147, 256 and 441 samples; and 1 Hz
\* and 0.5 Hz: periods of 44100 and 88200 samples.
CycleFrequencies ==
    { 2756 * Hz + Quarter, 1764 * Hz, 1102 * Hz + Half, 882 * Hz, 700 * Hz,
      441 * Hz, 300 * Hz, 172 * Hz + 17 * (Hz \div 2^6), 100 * Hz, Hz, Half }

\* Below 100 Hz the samples of a period are generated 441 at a time.
CycleBlock == SAMPLE_RATE \div 100

\* The frequency is set once, at the start of the run.
SetCycleFrequency(f) ==
    /\ op # "oscillator_set_frequency"
    /\ frequency = REFERENCE_A4
    /\ OscillatorSetFrequency(f)

\* Samples before the frequency is set, and one period of samples after.
GenerateCycle ==
    /\ IF frequency = REFERENCE_A4 /\ start_samples = 0
       THEN samples < MaxRunIn
       ELSE /\ frequency >= 100 * Hz
            /\ samples - start_samples < SamplesPerCycle(frequency)
    /\ OscillatorGenerateSample

GenerateLongCycle ==
    /\ frequency < 100 * Hz
    /\ samples - start_samples + CycleBlock <= SamplesPerCycle(frequency)
    /\ OscillatorGenerateSamples(CycleBlock)

NextCycle ==
    \/ \E f \in CycleFrequencies : SetCycleFrequency(f)
    \/ GenerateCycle
    \/ GenerateLongCycle

SpecCycle == Init /\ [][NextCycle]_vars

\* ------------------------------------------------------------------------
\* The main loop of sound_profiles.c
\* ------------------------------------------------------------------------

\* Buffers handed off in a run.
MaxBuffers == 2

\* AUTOTUNE_STRENGTH 1.0f
AUTOTUNE_STRENGTH == One

\* Mutation: every profile takes the auto-tune branch.
IsAutotuneProfile_Always(profile) == TRUE

\* The test of process_audio_sample, current_profile == PROFILE_AUTOTUNE.
IsAutotuneProfile(profile) == profile = PROFILE_AUTOTUNE

\* Mutation: the fill loop ends one slot early.
BufferFull_OneShort == buffer_index >= AUDIO_BUFFER_SIZE - 1

\* The exit test of main's for loop, !(buffer_index < AUDIO_BUFFER_SIZE).
BufferFull == buffer_index >= AUDIO_BUFFER_SIZE

\* One pass of main's for loop: process_audio_sample() with the reading adc
\* from adc_read(), then buffer_index++.  The calls it makes are part of
\* the step: read_frequency_from_antenna, process_autotune,
\* oscillator_set_frequency, oscillator_generate_sample.
ProcessAudioSample(adc) ==
    /\ ~BufferFull
    /\ LET raw_frequency == adc_value_to_frequency(adc)
           retarget == NeedsRetarget(raw_frequency, last_input_freq)
           tgt == IF retarget THEN find_nearest_note(raw_frequency)
                  ELSE target_freq
           cur == Glide(current_freq, tgt, AUTOTUNE_GLIDE)
           autotune == IsAutotuneProfile(current_profile)
           corrected_frequency ==
               IF autotune THEN Blend(raw_frequency, cur, AUTOTUNE_STRENGTH)
               ELSE raw_frequency
           increment == PhaseIncrement(corrected_frequency)
           sample_float == LookUpSample(waveform_type, phase)
           sample_int16 == ToInt16(sample_float)
       IN  /\ adc_value' = adc
           /\ IF autotune
              THEN /\ target_freq' = tgt
                   /\ last_input_freq' =
                          (IF retarget THEN raw_frequency ELSE last_input_freq)
                   /\ current_freq' = cur
                   /\ input_freq' = raw_frequency
                   /\ strength' = AUTOTUNE_STRENGTH
                   /\ glide_rate' = AUTOTUNE_GLIDE
                   /\ output_freq' = corrected_frequency
                   /\ calls' = calls + 1
                   /\ debug_counter' =
                          (IF debug_counter >= 4410 THEN 0 ELSE debug_counter + 1)
              ELSE UNCHANGED <<target_freq, last_input_freq, current_freq,
                               input_freq, strength, glide_rate, output_freq,
                               calls, debug_counter>>
           /\ frequency' = corrected_frequency
           /\ phase_increment' = increment
           /\ start_phase' = phase
           /\ start_samples' = samples
           /\ sample' = sample_float
           /\ phase' = U32Add(phase, increment)
           /\ samples' = samples + 1
           /\ audio_buffer' = [audio_buffer EXCEPT ![buffer_index] = sample_int16]
    /\ buffer_index' = buffer_index + 1
    /\ op' = "process_audio_sample"
    /\ UNCHANGED <<note_table, wavetable, waveform_type, current_profile,
                   handoffs, sink_vars, pwm_vars>>

\* The rest of a pass of main's while loop once the for loop has ended:
\* send_buffer_to_partner(), which only prints (at most once per second)
\* and returns at once, then the for loop's buffer_index = 0.
SendBufferToPartner ==
    /\ BufferFull
    /\ handoffs' = handoffs + 1
    /\ buffer_index' = 0
    /\ op' = "send_buffer_to_partner"
    /\ UNCHANGED <<autotune_vars, osc_vars, audio_buffer, adc_value,
                   debug_counter, current_profile, sink_vars, pwm_vars>>

\* The main loop with a reading that changes between buffers only.
NextPipeline ==
    \/ \E adc \in AdcReadings :
          /\ handoffs < MaxBuffers
          /\ buffer_index = 0 \/ adc = adc_value
          /\ ProcessAudioSample(adc)
    \/ SendBufferToPartner

SpecPipeline == Init /\ [][NextPipeline]_vars

\* The values the profile selector may leave in current_profile: auto-tune
\* and the three pass-through profiles the comments of process_audio_sample
\* name.
Profiles == PROFILE_AUTOTUNE .. PROFILE_AUTOTUNE + 3

\* The main loop entered with any of the profiles selected.
InitProfile ==
    /\ InitAutotune
    /\ InitOscillator
    /\ InitBuffers
    /\ InitPwm
    /\ current_profile \in Profiles

SpecProfile == InitProfile /\ [][NextPipeline]_vars

\* ------------------------------------------------------------------------
\* read_frequency_from_antenna called on its own
\* ------------------------------------------------------------------------

\* The uint16_t values adc_read() is taken to return.
AdcSamples == {p[1] : p \in ExponentialProducts}

\* float read_frequency_from_antenna(void), adc_read() returning adc
ReadFrequencyFromAntenna(adc) ==
    /\ adc_value' = adc
    /\ output_freq' = adc_value_to_frequency(adc)
    /\ op' = "read_frequency_from_antenna"
    /\ UNCHANGED <<note_table, current_freq, target_freq, last_input_freq,
                   input_freq, strength, glide_rate, calls, osc_vars,
                   audio_buffer, buffer_index, debug_counter, current_profile,
                   handoffs, sink_vars, pwm_vars>>

NextAntenna == \E adc \in AdcSamples : ReadFrequencyFromAntenna(adc)

SpecAntenna == Init /\ [][NextAntenna]_vars

\* ------------------------------------------------------------------------
\* The wavetables and the oscillator's settings, no samples generated
\* ------------------------------------------------------------------------

\* Frequencies the oscillator is set to: the octaves of A from 55 Hz up and
\* the ends of the antenna's range.
TableFrequencies ==
    { 55 * Hz, 110 * Hz, 220 * Hz, 440 * Hz, 880 * Hz, 1760 * Hz,
      MIN_FREQUENCY, MAX_FREQUENCY }

NextTables ==
    \/ WaveformInit
    \/ \E type \in WaveformTypes : OscillatorInit(type)
    \/ \E f \in TableFrequencies : OscillatorSetFrequency(f)
    \/ \E type \in WaveformTypes : OscillatorSetWaveform(type)

SpecTables == Init /\ [][NextTables]_vars

\* ------------------------------------------------------------------------
\* The oscillator initialised, set and read at any phase
\* ------------------------------------------------------------------------

\* Samples generated in a run.
MaxOscSamples == 2

\* 440 Hz, and 4095 Hz whose increment passes several table entries.
SampleFrequencies == { REFERENCE_A4, 4095 * Hz }

GenerateOne ==
    /\ samples < MaxOscSamples
    /\ OscillatorGenerateSample

NextSample ==
    \/ \E type \in WaveformTypes : OscillatorInit(type)
    \/ \E f \in SampleFrequencies : OscillatorSetFrequency(f)
    \/ GenerateOne

SpecSample == InitRead /\ [][NextSample]_vars

\* ------------------------------------------------------------------------
\* The PWM wavetable path: set_freq and create_sine_samp interleaved
\* ------------------------------------------------------------------------

\* Channels 0 and 1, and a channel number set_freq ignores.
Channels == 0 .. 2

NextPwm ==
    \/ \E c \in Channels, f \in PwmFrequencies : SetFreq(c, f)
    \/ CreateSineSamp

SpecPwm == Init /\ [][NextPwm]_vars

\* ------------------------------------------------------------------------
\* The partner's sink in an execution context of its own
\* ------------------------------------------------------------------------

\* The sink turns to the buffer handed off last, once it has none in hand
\* or has read the one before to the end.
SinkAccept ==
    /\ sink_handoff < handoffs
    /\ sink_handoff = 0 \/ sink_index = AUDIO_BUFFER_SIZE
    /\ sink_handoff' = handoffs
    /\ sink_index' = 0
    /\ UNCHANGED <<autotune_vars, op, osc_vars, producer_vars, pwm_vars>>

\* The sink reads the next slot of audio_buffer.
SinkRead ==
    /\ sink_handoff > 0
    /\ sink_index < AUDIO_BUFFER_SIZE
    /\ sink_index' = sink_index + 1
    /\ UNCHANGED <<autotune_vars, op, osc_vars, producer_vars, sink_handoff,
                   pwm_vars>>

\* The main loop with a steady ADC reading, and the sink beside it.
NextSink ==
    \/ /\ handoffs < MaxBuffers
       /\ ProcessAudioSample(adc_value)
    \/ SendBufferToPartner
    \/ SinkAccept
    \/ SinkRead

SpecSink == Init /\ [][NextSink]_vars

\* ------------------------------------------------------------------------
\* Helpers of the properties: exact (unrounded) arithmetic
\* ------------------------------------------------------------------------

Notes == 0 .. NUM_NOTES - 1

TableValues == { note_table[i] : i \in Notes }

\* The entries at the least exact distance from c.
NearestEntries(c) ==
    { i \in Notes : \A j \in Notes : Abs(c - note_table[i]) <= Abs(c - note_table[j]) }

LowestNearest(c) ==
    CHOOSE i \in NearestEntries(c) : \A j \in NearestEntries(c) : i <= j

\* f clamped to [lo, hi]
ClampTo(f, lo, hi) == IF f < lo THEN lo ELSE IF f > hi THEN hi ELSE f

\* a * b <= c * d, without leaving 32 bits
ProductLeq(a, b, c, d) ==
    LET p == Product(a, b)
        q == Product(c, d)
    IN  \/ p[1] < q[1]
        \/ p[1] = q[1] /\ p[2] < q[2]
        \/ p[1] = q[1] /\ p[2] = q[2] /\ p[3] <= q[3]

\* A step that is a call of process_autotune.
ProcessStep == op' = "process_autotune" /\ calls' = calls + 1

\* Rounding allowance of the snap: 2^-10 Hz.
SnapTolerance == Hz \div 2^10

\* ------------------------------------------------------------------------
\* C1
\* ------------------------------------------------------------------------

\* C1 (as stated): after any call process_autotune(f, 1, 1), from any
\* reachable corrector state, the value returned is exactly
\* find_nearest_note(f).  Stated for the inputs of at least 60 Hz, so that
\* no zero or sub-audio input is involved.
C1_SnapIsExact ==
    (op = "process_autotune" /\ strength = One /\ glide_rate = One
        /\ input_freq >= 60 * Hz)
        => output_freq = find_nearest_note(input_freq)

\* C1 (amended): a call process_autotune(f, 1, 1) that retargets
\* (|f - last_input_freq| > 1 Hz) returns find_nearest_note(f) to within
\* single-precision rounding, 2^-10 Hz.
C1_SnapWithinRounding ==
    [][ (ProcessStep /\ strength' = One /\ glide_rate' = One
           /\ Abs(input_freq' - last_input_freq) > One)
        => Abs(output_freq' - find_nearest_note(input_freq')) <= SnapTolerance ]_vars

\* A retargeting snap from a corrector that was not at rest, whose result
\* differs from the note by rounding only.
C1_Witness ==
    /\ op = "process_autotune" /\ strength = One /\ glide_rate = One
    /\ calls >= 2
    /\ last_input_freq = input_freq /\ input_freq = 60 * Hz
    /\ target_freq = find_nearest_note(input_freq)
    /\ output_freq # target_freq
    /\ Abs(output_freq - target_freq) <= SnapTolerance

\* ------------------------------------------------------------------------
\* C2
\* ------------------------------------------------------------------------

\* C2 (as stated): the first process_autotune call after reset_autotune or
\* autotune_init, with any input other than 0, retargets: afterwards
\* target_freq = find_nearest_note(input) and last_input_freq = input.
C2_RetargetAfterResetUnlessZero ==
    [][ (op \in {"reset_autotune", "autotune_init"} /\ ProcessStep /\ input_freq' # 0)
        => (target_freq' = find_nearest_note(input_freq')
            /\ last_input_freq' = input_freq') ]_vars

\* C2 (amended): the first process_autotune call after reset_autotune or
\* autotune_init, with an input of magnitude above 1 Hz, retargets.
C2_RetargetAfterResetAboveThreshold ==
    [][ (op \in {"reset_autotune", "autotune_init"} /\ ProcessStep
           /\ Abs(input_freq') > One)
        => (target_freq' = find_nearest_note(input_freq')
            /\ last_input_freq' = input_freq') ]_vars

\* The only call so far followed a reset or init and moved the target.
C2_Witness ==
    /\ op = "process_autotune" /\ calls = 1
    /\ Abs(input_freq) > One
    /\ last_input_freq = input_freq
    /\ target_freq = find_nearest_note(input_freq)
    /\ target_freq # REFERENCE_A4

\* ------------------------------------------------------------------------
\* C3
\* ------------------------------------------------------------------------

C4_ZeroStrengthPassesInput ==
    (op = "process_autotune" /\ strength = 0) => output_freq = input_freq

\* A zero-strength call that returned its input while the corrector glided
\* part of the way to a new target.
C4_Witness ==
    /\ op = "process_autotune" /\ strength = 0 /\ glide_rate = Half
    /\ output_freq = input_freq
    /\ target_freq # REFERENCE_A4
    /\ current_freq # REFERENCE_A4
    /\ current_freq # target_freq
    /\ current_freq # input_freq

\* ------------------------------------------------------------------------
\* C5
\* ------------------------------------------------------------------------

\* C5: find_nearest_note(f) is a table entry nearest to f clamped to
\* [note_table[0], note_table[NUM_NOTES-1]]; every input at or below
\* note_table[0] gives note_table[0] and every input at or above
\* note_table[NUM_NOTES-1] gives note_table[NUM_NOTES-1].
C5_NearestAfterClampToTable ==
    op = "find_nearest_note" =>
        LET c == ClampTo(input_freq, note_table[0], note_table[NUM_NOTES - 1])
        IN  /\ output_freq \in { note_table[i] : i \in NearestEntries(c) }
            /\ input_freq <= note_table[0] => output_freq = note_table[0]
            /\ input_freq >= note_table[NUM_NOTES - 1]
                  => output_freq = note_table[NUM_NOTES - 1]

\* ------------------------------------------------------------------------
\* C6
\* ------------------------------------------------------------------------

\* C6: after autotune_init, note_table[0] is within 0.1 of 65.41 Hz (C2),
\* note_table[49] within 0.01 of 440 Hz (A4) and note_table[59] within 1.0
\* of 2093 Hz (C7).
C6_TableSpansC2ToC7 ==
    /\ Abs(note_table[0] - FIRST_NOTE_FREQ) <= Hz \div 10
    /\ Abs(note_table[49] - 440 * Hz) <= Hz \div 100
    /\ Abs(note_table[59] - 2093 * Hz) <= Hz

\* ------------------------------------------------------------------------
\* C7
\* ------------------------------------------------------------------------

\* note_table[49] is 440.0, the table is strictly increasing, every adjacent
\* ratio is 2^(1/12) within 1e-4 relative, and an octave (12 entries) doubles
\* the frequency within 1e-6 relative: note_table[i] = 440 * 2^((i-49)/12).
TableIsEqualTempered ==
    /\ note_table[49] = 440 * Hz
    /\ \A i \in 0 .. NUM_NOTES - 2 :
          /\ note_table[i] < note_table[i + 1]
          /\ ProductLeq(note_table[i], 1059357149, note_table[i + 1], 1000000000)
          /\ ProductLeq(note_table[i + 1], 1000000000, note_table[i], 1059569040)
    /\ \A i \in 0 .. NUM_NOTES - 13 :
          ProductLeq(Abs(note_table[i + 12] - 2 * note_table[i]), 1000000,
                     2 * note_table[i], 1)

C8_ReturnsANearestEntry ==
    op = "find_nearest_note" =>
        /\ output_freq \in TableValues
        /\ \A j \in Notes :
              Abs(ClampInput(input_freq) - note_table[j])
                 >= Abs(ClampInput(input_freq) - output_freq)

\* A lookup of an in-range input strictly between two entries that returned
\* the upper one.
C8_Witness ==
    /\ op = "find_nearest_note"
    /\ input_freq \notin TableValues
    /\ input_freq > FIRST_NOTE_FREQ
    /\ input_freq < note_table[NUM_NOTES - 1]
    /\ output_freq \in TableValues
    /\ output_freq > input_freq

\* ------------------------------------------------------------------------
\* C9
\* ------------------------------------------------------------------------

\* C9: find_nearest_note returns the lowest-indexed entry among those at the
\* least distance from the clamped input; an input exactly half way between
\* two adjacent entries gives the lower one.
C9_TieGoesToLowerNote ==
    op = "find_nearest_note" =>
        output_freq = note_table[LowestNearest(ClampInput(input_freq))]

\* A lookup of an input exactly half way between two adjacent entries.
C9_Witness ==
    /\ op = "find_nearest_note"
    /\ Cardinality(NearestEntries(ClampInput(input_freq))) = 2
    /\ output_freq < input_freq
    /\ \E i \in 0 .. NUM_NOTES - 2 :
          /\ output_freq = note_table[i]
          /\ input_freq - note_table[i] = note_table[i + 1] - input_freq

\* ------------------------------------------------------------------------
\* C10
\* ------------------------------------------------------------------------

\* C10: find_nearest_note(note_table[i]) = note_table[i] for every index i.
C10_TableEntriesMapToThemselves ==
    (op = "find_nearest_note" /\ input_freq \in TableValues)
        => output_freq = input_freq

\* ------------------------------------------------------------------------
\* C11 .. C13: the glide and the blend over runs of calls
\* ------------------------------------------------------------------------

\* |target_freq - current_freq|, exactly.
GlideGap == Abs(target_freq - current_freq)

\* -1, 0 or 1: the side of current_freq the target lies on.
GlideSide == IF target_freq > current_freq THEN 1
             ELSE IF target_freq < current_freq THEN -1 ELSE 0

\* A call that repeats the input and the glide rate (in (0,1)) of the call
\* before it.
RunStep ==
    /\ op = "process_autotune" /\ op' = "process_autotune"
    /\ calls' = calls + 1
    /\ input_freq' = input_freq
    /\ glide_rate' = glide_rate
    /\ glide_rate \in RunGlides

\* C11 as stated: over repeated calls with a constant input and a constant
\* glide rate in (0,1) the gap |target - current| never grows, strictly
\* shrinks while it is nonzero, and current never crosses the target.
C11_GapStrictlyShrinks ==
    [][RunStep =>
         /\ GlideGap' <= GlideGap
         /\ GlideGap # 0 => GlideGap' < GlideGap
         /\ GlideSide' \in {0, GlideSide}]_vars

\* C11 amended: the gap never grows and current never crosses the target;
\* the gap strictly shrinks while the adjustment gap * glide_rate is more
\* than half a unit in the last place of current_freq (below that the
\* addition rounds back to current_freq and the glide rests short of the
\* target); a run of MaxGlideCalls calls ends with an adjustment of at most
\* half a unit in the last place of the target, that is within one unit of
\* it at glide_rate 0.5 and within two at 0.25 and at AUTOTUNE_GLIDE (0.3f).
C11_GapShrinksUntilRounding ==
    [][RunStep =>
         /\ GlideGap' <= GlideGap
         /\ GlideSide' \in {0, GlideSide}
         /\ target_freq' = target_freq
         /\ GlideGap * (glide_rate \div Quarter) > 2 * Ulp(current_freq)
               => GlideGap' < GlideGap
         /\ calls' = MaxGlideCalls
               => GlideGap' * (glide_rate \div Quarter) <= 2 * Ulp(target_freq)]_vars

\* A run with glide_rate 0.5 that has come to rest one unit in the last
\* place short of its target.
C11_Witness ==
    /\ op = "process_autotune"
    /\ calls = MaxGlideCalls
    /\ glide_rate = Half
    /\ GlideGap = Ulp(target_freq)
    /\ Glide(current_freq, target_freq, glide_rate) = current_freq

\* C12: with strength 1.0, glide rates in [0,1] and inputs anywhere in
\* [65.41, 2093] Hz that change from call to call, every frequency returned
\* by process_autotune lies in [60, 2100] Hz.
C12_OutputInValidRange ==
    op = "process_autotune" => /\ output_freq >= 60 * Hz
                               /\ output_freq <= 2100 * Hz

\* The input at the top of the range while the output is still at the
\* bottom note, after a jump of the input across the whole range.
C12_Witness ==
    /\ op = "process_autotune"
    /\ strength = One
    /\ input_freq = MAX_FREQUENCY
    /\ last_input_freq = MAX_FREQUENCY
    /\ output_freq < 66 * Hz
    /\ output_freq >= 60 * Hz

\* Twice input + (current_freq - input) * strength, exactly, for the
\* strengths 0, 0.5 and 1.
TwiceExactBlend ==
    2 * input_freq + (current_freq - input_freq) * ((2 * strength) \div One)

\* The larger unit in the last place of the two blended frequencies.
BlendUlp ==
    IF Ulp(input_freq) > Ulp(current_freq) THEN Ulp(input_freq) ELSE Ulp(current_freq)

\* C13 as stated, for full strength: the value returned with strength 1 is
\* current_freq' exactly.
C13_BlendIsExact ==
    (op = "process_autotune" /\ strength = One) => output_freq = current_freq

\* C13 amended: the value returned is input + (current_freq' - input) *
\* strength evaluated in single precision, within one unit in the last
\* place (of the larger of input and current_freq') of the exact value;
\* so with strength 1 it is current_freq' up to that rounding, and with
\* current_freq' on the target it is input + strength * (target - input)
\* up to that rounding.
C13_BlendWithinRounding ==
    op = "process_autotune" =>
        /\ Abs(2 * output_freq - TwiceExactBlend) <= 2 * BlendUlp
        /\ strength = One => Abs(output_freq - current_freq) <= BlendUlp
        /\ current_freq = target_freq =>
              Abs(2 * output_freq - 2 * input_freq
                    - (target_freq - input_freq) * ((2 * strength) \div One))
                <= 2 * BlendUlp

\* Half strength on a converged corrector: the result lies strictly between
\* the input and the target.
C13_Witness ==
    /\ op = "process_autotune"
    /\ strength = Half
    /\ calls > 1
    /\ current_freq = target_freq
    /\ input_freq > target_freq
    /\ output_freq > target_freq /\ output_freq < input_freq

\* ------------------------------------------------------------------------
\* C14 .. C17: the oscillator
\* ------------------------------------------------------------------------

\* -1.0 <= m * 2^-e <= 1.0 (a significand m is below 2^24 in magnitude)
InUnitRange(s) == s[2] >= 24 \/ Abs(s[1]) <= 2^(s[2])

\* C14: every entry of the four tables filled by waveform_init lies in
\* [-1.0, 1.0], and so does every value oscillator_generate_sample returns,
\* whatever the phase and the waveform type (0.0 for a type that is none of
\* the four).
C14_SampleInUnitRange ==
    /\ \A t \in DOMAIN wavetable : \A i \in DOMAIN wavetable[t] :
          InUnitRange(wavetable[t][i])
    /\ InUnitRange(sample)
    /\ (op = "oscillator_generate_sample"
          /\ waveform_type \notin WAVEFORM_SINE .. WAVEFORM_TRIANGLE)
         => sample = <<0, 0>>

\* The sawtooth read at its lowest point, -1.0 at table index 0.
C14_Witness ==
    /\ op = "oscillator_generate_sample"
    /\ waveform_type = WAVEFORM_SAWTOOTH
    /\ samples = 1
    /\ TableIndex(start_phase) = 0
    /\ sample = <<-1, 0>>

\* The integer part of f / SAMPLE_RATE * 2^32, exactly (f on the grid).
ExactIncrement(f) ==
    2^11 * (f \div (SAMPLE_RATE \div 4))
      + ((2^11 * (f % (SAMPLE_RATE \div 4))) \div (SAMPLE_RATE \div 4))

\* C15 as stated: oscillator_set_frequency sets phase_increment to the
\* truncation of f / SAMPLE_RATE * 2^32 (so that it never exceeds that
\* value) and leaves phase and waveform_type unchanged.
C15_IncrementIsTruncation ==
    [][op' = "oscillator_set_frequency" =>
         /\ phase_increment' = ExactIncrement(frequency')
         /\ phase' = phase
         /\ waveform_type' = waveform_type]_vars

\* C15 amended: phase_increment is the truncation of the single-precision
\* value of f / SAMPLE_RATE * 2^32: a number of at most 24 significant bits
\* within half a unit in the last place of the exact value (the quotient
\* is rounded to nearest, up or down) or, below 2^24, at most one above its
\* integer part; phase and waveform_type are unchanged.
C15_IncrementIsRoundedQuotient ==
    [][op' = "oscillator_set_frequency" =>
         LET exact == ExactIncrement(frequency')
             half == Ulp(exact) \div 2
         IN  /\ phase_increment' % Ulp(phase_increment') = 0
             /\ phase_increment' >= exact - half
             /\ phase_increment' <= exact + (IF half = 0 THEN 1 ELSE half)
             /\ phase' = phase
             /\ waveform_type' = waveform_type]_vars

\* The oscillator retuned in mid-cycle to an increment above the exact
\* value: the quotient was rounded up.
C15_Witness ==
    /\ op = "oscillator_set_frequency"
    /\ phase # <<0, 0>>
    /\ phase_increment > ExactIncrement(frequency)
    /\ phase_increment = PhaseIncrement(frequency)

\* C16: oscillator_set_waveform changes only waveform_type (phase,
\* phase_increment and the tables stay as they were), so the sample
\* generated next is the entry of the new type's table at the index the
\* old phase selects.
C16_SetWaveformChangesOnlyType ==
    [][/\ op' = "oscillator_set_waveform" =>
            /\ phase' = phase
            /\ phase_increment' = phase_increment
            /\ wavetable' = wavetable
            /\ autotune_vars' = autotune_vars
       /\ (op = "oscillator_set_waveform" /\ op' = "oscillator_generate_sample") =>
            sample' = IF waveform_type \in DOMAIN wavetable
                      THEN wavetable[waveform_type][phase[1] \div 2^8]
                      ELSE <<0, 0>>]_vars

\* The waveform switched to square after a sample that no square wave
\* yields was generated in mid-cycle.
C16_Witness ==
    /\ op = "oscillator_set_waveform"
    /\ waveform_type = WAVEFORM_SQUARE
    /\ samples = 1
    /\ phase # <<0, 0>>
    /\ sample \notin {<<1, 0>>, <<-1, 0>>, <<0, 0>>}

\* The value of a uint32_t below 2^31.
U32Value(w) == w[1] * 2^16 + w[2]

\* The distance of two phases around the 2^32 circle (capped at 2^31 - 1).
PhaseDistance(a, b) ==
    LET d == U32Sub(a, b)
        e == U32Sub(b, a)
    IN  IF d[1] < 2^15 THEN U32Value(d)
        ELSE IF e[1] < 2^15 THEN U32Value(e)
        ELSE 2^31 - 1

\* C17 as stated: at a fixed frequency f with n = SAMPLE_RATE / f an integer,
\* after n consecutive calls of oscillator_generate_sample the phase
\* differs from the phase it started at, modulo 2^32, by less than one
\* phase_increment.
C17_PhaseReturnsAfterOnePeriod ==
    (/\ DividesSampleRate(frequency)
     /\ samples - start_samples = SamplesPerCycle(frequency))
      => PhaseDistance(phase, start_phase) < phase_increment

\* C17 amended: the same for frequencies of 1 Hz and more (the shortfall
\* of a period is below n, which is below the increment 2^32 / n only for
\* n < 2^16).
C17_PhaseReturnsFromOneHertz ==
    (/\ DividesSampleRate(frequency)
     /\ frequency >= Hz
     /\ samples - start_samples = SamplesPerCycle(frequency))
      => PhaseDistance(phase, start_phase) < phase_increment

\* A period of 441 samples at 100 Hz, started in mid-cycle, has ended near
\* but not on the phase it started at.
C17_Witness ==
    /\ op = "oscillator_generate_sample"
    /\ frequency = 100 * Hz
    /\ samples - start_samples = 441
    /\ start_phase # <<0, 0>>
    /\ phase # start_phase
    /\ PhaseDistance(phase, start_phase) < phase_increment

\* ------------------------------------------------------------------------
\* C18 .. C20: the sample pipeline
\* ------------------------------------------------------------------------

\* The integers nearest to R * 2^-k: one, or two when R * 2^-k lies halfway.
NearestIntegers(R, k) ==
    IF k <= 0 THEN {R * 2^(-k)}
    ELSE IF k > 30 THEN {0}
    ELSE {n \in {R \div 2^k, R \div 2^k + 1} : Abs(n * 2^k - R) <= 2^(k - 1)}

\* round(sample * 32767) clamped to the int16 range, for the sample
\* m * 2^-e: the values a rounding to nearest may give (either one at a
\* tie).
RoundedAndClamped(s) ==
    LET dR == FloatProduct(Abs(s[1]), 32767)
    IN  {ClampTo(WithSign(s[1], n), -32768, 32767) :
             n \in NearestIntegers(dR[2], s[2] - dR[1])}

\* The slot process_audio_sample wrote last.
LastSlot == buffer_index - 1

\* C18: the int16 value process_audio_sample stores is the product
\* sample * 32767 rounded to the nearest integer and clamped to
\* [-32768, 32767], for every sample the oscillator returns.
C18_StoredIsRoundedSample ==
    op = "process_audio_sample" =>
        audio_buffer[LastSlot] \in RoundedAndClamped(sample)

\* Samples appended to audio_buffer since the handoff before.
Appended == samples - AUDIO_BUFFER_SIZE * handoffs

\* A step of process_audio_sample, a step of send_buffer_to_partner.
WriteStep == op' = "process_audio_sample" /\ samples' = samples + 1

HandoffStep == op' = "send_buffer_to_partner" /\ handoffs' = handoffs + 1

\* C19: the buffer is handed to send_buffer_to_partner exactly when
\* AUDIO_BUFFER_SIZE samples have been appended since the handoff before,
\* never earlier or later; every write goes to an index in 0 .. 255, the
\* slots are written in the order 0, 1, ..., 255, each once per fill and
\* none other touched, and the write after a handoff goes to index 0.
C19_HandoffEveryFullBuffer ==
    [][/\ HandoffStep =>
            /\ Appended = AUDIO_BUFFER_SIZE
            /\ buffer_index' = 0
            /\ audio_buffer' = audio_buffer
       /\ WriteStep =>
            /\ buffer_index \in 0 .. AUDIO_BUFFER_SIZE - 1
            /\ buffer_index = Appended
            /\ buffer_index' = buffer_index + 1
            /\ audio_buffer'[buffer_index] = ToInt16(sample')
            /\ \A i \in 0 .. AUDIO_BUFFER_SIZE - 1 :
                 i # buffer_index => audio_buffer'[i] = audio_buffer[i]
       /\ (op = "send_buffer_to_partner" /\ WriteStep) => buffer_index = 0
       /\ Appended = AUDIO_BUFFER_SIZE => ~WriteStep]_vars

\* The second fill under way: a buffer has been handed off and the write
\* after it has gone to slot 0.
C19_Witness ==
    /\ op = "process_audio_sample"
    /\ handoffs = 1
    /\ buffer_index = 1
    /\ samples = AUDIO_BUFFER_SIZE + 1
    /\ audio_buffer[0] = ToInt16(sample)

\* The sink has read slot i of the contents handed off last.
SinkHasRead(i) == sink_handoff = handoffs /\ sink_index > i

\* C20: with the sink in an execution context of its own, the pipeline
\* never writes a slot of a handed-off buffer that the sink has not yet
\* read: every write to audio_buffer[i] after a handoff finds slot i of the
\* handed-off contents already read.
C20_SinkReadsBeforeOverwrite ==
    [][(WriteStep /\ handoffs >= 1) => SinkHasRead(buffer_index)]_vars

\* ------------------------------------------------------------------------
\* C21 .. C30
\* ------------------------------------------------------------------------

\* What a call process_autotune(f, s, g) makes of the corrector state:
\* <<target_freq, last_input_freq, current_freq, value returned>>.
AutotuneCall(f, s, g) ==
    LET retarget == NeedsRetarget(f, last_input_freq)
        tgt == IF retarget THEN find_nearest_note(f) ELSE target_freq
        cur == Glide(current_freq, tgt, g)
    IN  <<tgt, IF retarget THEN f ELSE last_input_freq, cur, Blend(f, cur, s)>>

\* C21: in process_audio_sample the oscillator frequency is the value of
\* process_autotune(raw, AUTOTUNE_STRENGTH, AUTOTUNE_GLIDE) when
\* current_profile is PROFILE_AUTOTUNE; for every other profile it is the
\* raw frequency and current_freq, target_freq and last_input_freq are left
\* as they were.
C21_ProfileSelectsCorrection ==
    [][WriteStep =>
         LET raw == adc_value_to_frequency(adc_value')
         IN  IF current_profile = PROFILE_AUTOTUNE
             THEN /\ <<target_freq', last_input_freq', current_freq', frequency'>>
                        = AutotuneCall(raw, AUTOTUNE_STRENGTH, AUTOTUNE_GLIDE)
                  /\ phase_increment' = PhaseIncrement(frequency')
             ELSE /\ frequency' = raw
                  /\ phase_increment' = PhaseIncrement(raw)
                  /\ UNCHANGED <<current_freq, target_freq, last_input_freq>>]_vars

\* A pass-through profile has played the top of the range for a whole
\* buffer while the corrector still rests on A4 as autotune_init left it.
C21_Witness ==
    /\ op = "process_audio_sample"
    /\ current_profile # PROFILE_AUTOTUNE
    /\ buffer_index = AUDIO_BUFFER_SIZE
    /\ frequency = MAX_FREQUENCY
    /\ current_freq = REFERENCE_A4 /\ target_freq = REFERENCE_A4
    /\ last_input_freq = 0

\* A call of read_frequency_from_antenna has returned.
AntennaRead == op = "read_frequency_from_antenna"

\* C22: adc_value_to_frequency returns a value in [MIN_FREQUENCY,
\* MAX_FREQUENCY] = [65.41, 2093.0] Hz for every uint16 reading, those above
\* ADC_MAX_VALUE included; MIN_FREQUENCY for the reading 0 and MAX_FREQUENCY
\* for readings of ADC_MAX_VALUE and more; and a reading that is not lower
\* than the one before gives a frequency that is not lower.
C22_MappedIntoRangeAndMonotone ==
    [][AntennaRead' =>
         /\ output_freq' >= MIN_FREQUENCY /\ output_freq' <= MAX_FREQUENCY
         /\ MIN_FREQUENCY = RoundF(65 * Hz + (41 * Hz) \div 100)
         /\ MAX_FREQUENCY = 2093 * Hz
         /\ adc_value' = 0 => output_freq' = MIN_FREQUENCY
         /\ adc_value' >= ADC_MAX_VALUE => output_freq' = MAX_FREQUENCY
         /\ (AntennaRead /\ adc_value <= adc_value') => output_freq <= output_freq']_vars

\* A reading far above ADC_MAX_VALUE, whose product is far above
\* MAX_FREQUENCY, has been mapped to MAX_FREQUENCY.
C22_Witness ==
    /\ AntennaRead
    /\ adc_value = 65535
    /\ ExponentialMap(adc_value) > 4095 * Hz
    /\ output_freq = MAX_FREQUENCY

\* The sample m * 2^-e equals n / 256.
IsRatio256(s, n) == s[2] <= 8 /\ s[1] * 2^(8 - s[2]) = n

\* |sample| in units of 2^-10, rounded down and rounded up.
AbsFloor(s) ==
    IF s[2] <= 10 THEN Abs(s[1]) * 2^(10 - s[2])
    ELSE IF s[2] - 10 > 30 THEN 0
    ELSE Abs(s[1]) \div 2^(s[2] - 10)

AbsCeil(s) ==
    IF s[2] <= 10 THEN Abs(s[1]) * 2^(10 - s[2])
    ELSE IF s[2] - 10 > 30 THEN 1
    ELSE (Abs(s[1]) + 2^(s[2] - 10) - 1) \div 2^(s[2] - 10)

\* Bounds from below and from above on the sum of the squares of the
\* entries lo .. hi of a table, in units of 2^-20.
RECURSIVE SquaresBelow(_, _, _)
SquaresBelow(table, lo, hi) ==
    IF lo = hi THEN AbsFloor(table[lo]) * AbsFloor(table[lo])
    ELSE SquaresBelow(table, lo, (lo + hi) \div 2)
           + SquaresBelow(table, (lo + hi) \div 2 + 1, hi)

RECURSIVE SquaresAbove(_, _, _)
SquaresAbove(table, lo, hi) ==
    IF lo = hi THEN AbsCeil(table[lo]) * AbsCeil(table[lo])
    ELSE SquaresAbove(table, lo, (lo + hi) \div 2)
           + SquaresAbove(table, (lo + hi) \div 2 + 1, hi)

\* sqrt(sum of squares / WAVETABLE_SIZE) lies within 0.02 of rms / 1000:
\* (rms - 20)^2 * 256 * 2^20 <= 10^6 * sum <= (rms + 20)^2 * 256 * 2^20.
RmsNear(table, rms) ==
    /\ ProductLeq((rms - 20) * (rms - 20) * WAVETABLE_SIZE, 2^20,
                  1000000, SquaresBelow(table, 0, WAVETABLE_SIZE - 1))
    /\ ProductLeq(1000000, SquaresAbove(table, 0, WAVETABLE_SIZE - 1),
                  (rms + 20) * (rms + 20) * WAVETABLE_SIZE, 2^20)

\* The closed forms and the RMS values of the four tables.
TablesFollowClosedForms(tables) ==
    /\ \A i \in 0 .. WAVETABLE_SIZE - 1 :
         /\ tables[WAVEFORM_SQUARE][i] = (IF i < 128 THEN <<1, 0>> ELSE <<-1, 0>>)
         /\ IsRatio256(tables[WAVEFORM_SAWTOOTH][i], 2 * i - 256)
         /\ IsRatio256(tables[WAVEFORM_TRIANGLE][i],
                       IF i < 128 THEN 4 * i - 256 ELSE 768 - 4 * i)
    /\ SquaresBelow(tables[WAVEFORM_SQUARE], 0, WAVETABLE_SIZE - 1)
          = WAVETABLE_SIZE * 2^20
    /\ SquaresAbove(tables[WAVEFORM_SQUARE], 0, WAVETABLE_SIZE - 1)
          = WAVETABLE_SIZE * 2^20
    /\ RmsNear(tables[WAVEFORM_SAWTOOTH], 577)
    /\ RmsNear(tables[WAVEFORM_TRIANGLE], 577)
    /\ RmsNear(tables[WAVEFORM_SINE], 707)

\* C23: the wavetables waveform_init fills follow the closed forms for size
\* 256: square is +1 for i < 128 and -1 otherwise, with RMS exactly 1;
\* sawtooth[i] = 2i/256 - 1; triangle[i] = 4i/256 - 1 for i < 128 and
\* 3 - 4i/256 otherwise; the RMS of sawtooth and triangle is 0.577 within
\* 0.02 and the RMS of sine is 0.707 within 0.02.
C23_TablesFollowClosedForms == TablesFollowClosedForms(wavetable)

\* waveform_init has run again on an oscillator set to the sawtooth.
C23_Witness ==
    /\ op = "waveform_init"
    /\ waveform_type = WAVEFORM_SAWTOOTH
    /\ wavetable[WAVEFORM_SAWTOOTH][128] = <<0, 0>>
    /\ wavetable[WAVEFORM_TRIANGLE][128] = <<1, 0>>
    /\ wavetable[WAVEFORM_SQUARE][128] = <<-1, 0>>

\* C24: in every state reachable by calls of autotune_init, reset_autotune
\* and process_autotune in any order, target_freq equals some entry of
\* note_table.
C24_TargetIsATableEntry == target_freq \in TableValues

\* A call has retargeted away from A4, to the lowest note the search
\* returns.
C24_Witness ==
    /\ op = "process_autotune"
    /\ last_input_freq = input_freq
    /\ target_freq = note_table[16]
    /\ target_freq # REFERENCE_A4

\* ------------------------------------------------------------------------
\* C25
\* ------------------------------------------------------------------------

\* x lies in the closed interval between a and b, widened by slack.
Between(a, x, b, slack) ==
    /\ x >= (IF a < b THEN a ELSE b) - slack
    /\ x <= (IF a < b THEN b ELSE a) + slack

\* The target a call with input f chooses before it glides.
ChosenTarget(f) ==
    IF NeedsRetarget(f, last_input_freq) THEN find_nearest_note(f)
    ELSE target_freq

\* A call that sees an input jump of more than 1 Hz, made with a glide rate
\* of at least minGlide while the corrector is further than minGap from the
\* note the call chooses.
JumpStep(minGlide, minGap) ==
    /\ ProcessStep
    /\ NeedsRetarget(input_freq', last_input_freq)
    /\ glide_rate' >= minGlide
    /\ Abs(current_freq - target_freq') > minGap

\* C25 (as stated): within one process_autotune call the retarget is applied
\* before the glide: the glide runs toward the target chosen in this same
\* call, for a glide rate in [0, 1] the new current_freq lies in the closed
\* interval between the old current_freq and the new target_freq, and a
\* call that sees an input jump of more than 1 Hz already moves current_freq
\* toward the new note.
C25_GlideTowardNewTargetExact ==
    [][ (ProcessStep =>
            /\ target_freq' = ChosenTarget(input_freq')
            /\ current_freq' = Glide(current_freq, target_freq', glide_rate')
            /\ Between(current_freq, current_freq', target_freq', 0))
        /\ (JumpStep(1, 0) =>
            Abs(target_freq' - current_freq') < Abs(target_freq' - current_freq))
      ]_vars

\* C25 (amended): within one process_autotune call the retarget is applied
\* before the glide: the glide runs toward the target chosen in this same
\* call, for a glide rate in [0, 1] the new current_freq lies in the closed
\* interval between the old current_freq and the new target_freq widened by
\* the rounding allowance of the single-precision glide (2^-10 Hz), and a
\* call that sees an input jump of more than 1 Hz, with a glide rate of at
\* least 1/4 and the corrector further than that allowance from the new
\* note, already moves current_freq toward the new note.
C25_GlideTowardNewTarget ==
    [][ (ProcessStep =>
            /\ target_freq' = ChosenTarget(input_freq')
            /\ current_freq' = Glide(current_freq, target_freq', glide_rate')
            /\ Between(current_freq, current_freq', target_freq', SnapTolerance))
        /\ (JumpStep(One \div 4, SnapTolerance) =>
            Abs(target_freq' - current_freq') < Abs(target_freq' - current_freq))
      ]_vars

\* The situation of test_autotune_frequency_change: the corrector rests on
\* A4, the input jumps to another note, and the call that sees the jump
\* leaves current_freq strictly between A4 and the new target.
C25_Witness ==
    /\ op = "process_autotune"
    /\ glide_rate > 0 /\ glide_rate < One
    /\ last_input_freq = input_freq
    /\ target_freq = find_nearest_note(input_freq)
    /\ target_freq > REFERENCE_A4
    /\ current_freq > REFERENCE_A4
    /\ current_freq < target_freq

\* ------------------------------------------------------------------------
\* C26
\* ------------------------------------------------------------------------

\* A step that is one call of oscillator_generate_sample.
GenerateStep == op' = "oscillator_generate_sample" /\ samples' = samples + 1

\* (w >> 24) & 0xFF of the uint32_t w.
TopByte(w) == (w[1] \div 2^8) % 2^8

\* (w + n) mod 2^32 of the uint32_t w and n < 2^31, by 16-bit halves.
AddMod32(w, n) ==
    LET low == w[2] + (n % 2^16)
        high == w[1] + (n \div 2^16) + (low \div 2^16)
    IN  <<high % 2^16, low % 2^16>>

\* C26: oscillator_generate_sample reads table[waveform_type][(phase >> 24)
\* & 0xFF] with the phase from before the call (the first sample after
\* oscillator_init is table entry 0), then sets phase to (phase +
\* phase_increment) mod 2^32; the table index is always in 0 .. 255, and
\* waveform_type and phase_increment are unchanged.
C26_ReadsThenAdvances ==
    [][ /\ GenerateStep =>
            /\ TopByte(phase) \in 0 .. 255
            /\ waveform_type \in WAVEFORM_SINE .. WAVEFORM_TRIANGLE
                 => sample' = wavetable[waveform_type][TopByte(phase)]
            /\ phase' = AddMod32(phase, phase_increment)
            /\ waveform_type' = waveform_type
            /\ phase_increment' = phase_increment
        /\ (GenerateStep /\ op = "oscillator_init"
              /\ waveform_type \in WAVEFORM_SINE .. WAVEFORM_TRIANGLE)
             => sample' = wavetable[waveform_type][0]
      ]_vars

\* A sawtooth read at the last table entry, the phase wrapped past 2^32 to
\* the start of the table by the same call.
C26_Witness ==
    /\ op = "oscillator_generate_sample"
    /\ waveform_type = WAVEFORM_SAWTOOTH
    /\ samples = 1
    /\ TopByte(start_phase) = WAVETABLE_SIZE - 1
    /\ sample = wavetable[WAVEFORM_SAWTOOTH][WAVETABLE_SIZE - 1]
    /\ TopByte(phase) < TopByte(start_phase)

\* ------------------------------------------------------------------------
\* C27
\* ------------------------------------------------------------------------

NoRetargetYet == target_freq = REFERENCE_A4 /\ last_input_freq = 0

\* C28: in every state reached after at least one retarget since the last
\* autotune_init or reset_autotune, target_freq is find_nearest_note of
\* last_input_freq; the only states where the relation fails are those
\* after an init or reset with no retarget yet, in which target_freq is
\* 440 Hz and last_input_freq is 0.
C28_TargetIsNearestNoteOfLastInput ==
    /\ target_freq # find_nearest_note(last_input_freq) => NoRetargetYet
    /\ op \in {"autotune_init", "reset_autotune"} =>
          NoRetargetYet /\ target_freq # find_nearest_note(last_input_freq)
    /\ (op = "process_autotune" /\ ~NoRetargetYet) =>
          target_freq = find_nearest_note(last_input_freq)

\* A call that did not retarget after one that did: the target is still
\* the note nearest to the stored 427.5 Hz, G#4, and not the note nearest
\* to this call's 428 Hz, A4.
C28_Witness ==
    /\ op = "process_autotune"
    /\ calls >= 2
    /\ input_freq # last_input_freq
    /\ ~NoRetargetYet
    /\ target_freq = find_nearest_note(last_input_freq)
    /\ target_freq # find_nearest_note(input_freq)

\* ------------------------------------------------------------------------
\* C29
\* ------------------------------------------------------------------------

\* Half the sample rate, in whole hertz.
Nyquist == SAMPLE_RATE \div 2

\* The largest value below 2^31.
MaxInt31 == 2^30 + (2^30 - 1)

\* C29: in every step of the sample pipeline, whatever the ADC reading
\* (those above ADC_MAX_VALUE included) and whatever the profile, the
\* frequency passed to oscillator_set_frequency is strictly positive and
\* below SAMPLE_RATE / 2 (it is at most MAX_FREQUENCY), so that the
\* resulting phase_increment is above 0 and below 2^31 and its conversion
\* to uint32_t does not overflow.
C29_FrequencyBelowNyquist ==
    op = "process_audio_sample" =>
        /\ frequency > 0
        /\ frequency <= MAX_FREQUENCY
        /\ MAX_FREQUENCY \div Hz < Nyquist
        /\ phase_increment = PhaseIncrement(frequency)
        /\ phase_increment > 0
        /\ phase_increment <= MaxInt31

\* A pass-through profile plays the largest reading a uint16_t holds at the
\* top of the range, with an increment of a twentieth of a cycle.
C29_Witness ==
    /\ op = "process_audio_sample"
    /\ adc_value > ADC_MAX_VALUE
    /\ current_profile # PROFILE_AUTOTUNE
    /\ frequency = MAX_FREQUENCY
    /\ phase_increment > MaxInt31 \div 16

\* ------------------------------------------------------------------------
\* C30
\* ------------------------------------------------------------------------

\* A step that is one call of create_sine_samp.
SineSampStep == op' = "create_sine_samp" /\ pwm_samples' = pwm_samples + 1

\* A step that is the call set_freq(c, 0).
SilenceStep(c) == op' = "set_freq" /\ chan' = c /\ pwm_freq' = 0

\* offset lies in the table: 0 <= offset < N << 16, so that offset >> 16 is
\* an index of wavetable.
InTable(offset) ==
    /\ 0 <= offset
    /\ offset < N * 2^16
    /\ offset \div 2^16 \in 0 .. N - 1

\* C30: in the PWM wavetable path, for any interleaving of calls
\* set_freq(chan, f) with 0 <= f < rate and calls of create_sine_samp, both
\* offsets are at least 0 and below N << 16 after every create_sine_samp,
\* so that wavetable is read at an index in 0 .. N - 1; set_freq(chan, 0)
\* resets the step and the offset of that channel to 0 and leaves the step
\* and the offset of the other channel as they were.
C30_OffsetsStayInTable ==
    [][ /\ SineSampStep => InTable(offset0') /\ InTable(offset1')
        /\ SilenceStep(0) =>
              /\ step0' = 0 /\ offset0' = 0
              /\ step1' = step1 /\ offset1' = offset1
        /\ SilenceStep(1) =>
              /\ step1' = 0 /\ offset1' = 0
              /\ step0' = step0 /\ offset0' = offset0
      ]_vars

\* Channel 0 at half the rate has landed on N << 16 exactly and wrapped to
\* 0, and channel 1 just below the rate has wrapped as well.
C30_Witness ==
    /\ op = "create_sine_samp"
    /\ pwm_samples >= 2
    /\ step0 = (N * 2^16) \div 2
    /\ offset0 = 0
    /\ step1 > step0
    /\ offset1 < step1
    /\ offset1 > 0

====
